---- MODULE Spec2Model ----
(***************************************************************************)
(* Model of the ARM926EJ-S primary interrupt controller driver             *)
(* (interrupt.c): the non-vectored registry __isrNV, the vectored registry *)
(* __irqVect with its mirror in the VICVECTCNTLn / VICVECTADDRn registers, *)
(* the public operations that change them and the interrupt dispatch; and  *)
(* of the relocation of the exception vectors (exception.c).               *)
(*                                                                         *)
(* Every operation of the driver is one action, parametrised by the        *)
(* arguments of the C function.  The specifications at the end differ only *)
(* in the arguments the caller passes and in the operations it uses.       *)
(***************************************************************************)
EXTENDS Integers, Sequences, FiniteSets, TLC

(***************************************************************************)
(* Program constants.                                                      *)
(***************************************************************************)
NR_VECTORS == 16
NR_INTERRUPTS == 32
BM_VECT_ENABLE_BIT == 32
PRIORITY_MASK == 127

(* Function addresses.  NULL is the null pointer. *)
NULL == "NULL"
irq_dummyISR == "__irq_dummyISR"
irq_dummyNvISR == "__irq_dummyNvISR"
defaultVectorIsr == "__defaultVectorIsr"

(***************************************************************************)
(* Bounds of the caller: the lines it registers in any order at any time   *)
(* (0..MaxFree).  All other lines ("bulk" lines) are registered in         *)
(* ascending order with one routine and a priority fixed per line, which   *)
(* is what lets a run fill a table of 32 entries: every BulkStride-th line *)
(* has priority BulkPriority, the others BulkPriority + 1.                 *)
(***************************************************************************)
MaxFree == 0
BulkPriority == 2
BulkStride == 8
(* Calls made on the vectored registry after a pic_unregisterAllVectorIrqs *)
(* that left entries behind, before the next pic_init.                     *)
MaxStaleOps == 2

FreeLines == 0..MaxFree
BulkLines == (MaxFree + 1)..(NR_INTERRUPTS - 1)
InvalidLines == {NR_INTERRUPTS, 255}
UserIsrs == {"isr1", "isr2"}
ParamOf(isr) == IF isr = "isr2" THEN "ctx" ELSE NULL
PrioInputs == {BulkPriority - 1, BulkPriority, 200}
BulkIsr == "isr1"
BulkPrio(l) == IF l % BulkStride = 0 THEN BulkPriority ELSE BulkPriority + 1

VARIABLES
    isrNV,            \* __isrNV[NR_INTERRUPTS]
    irqVect,          \* __irqVect[NR_INTERRUPTS]
    VICVECTCNTLn,     \* pPicReg->VICVECTCNTLn[16]
    VICVECTADDRn,     \* pPicReg->VICVECTADDRn[16]
    VICDEFVECTADDR,   \* pPicReg->VICDEFVECTADDR
    VICINTENABLE,     \* pPicReg->VICINTENABLE, as the set of its bits that are 1
    irq_vector_mode,  \* __irq_vector_mode
    call,             \* the last call made: function and arguments
    ret,              \* the value it returned (0 for a void function)
    regOrder,         \* history: lines in order of registration (SpecDistinct)
    staleOps,         \* history: calls since a pic_unregisterAllVectorIrqs left entries
    log,              \* history: register accesses and handler calls of the last dispatch
    mem,              \* memory, word by word
    vectors_start,    \* &vectors_start, the address of the linker's label
    vectors_end,      \* &vectors_end
    dst_start,        \* MEM_DST_START of the build
    diffEval,         \* what the build makes of "MAX_ADDRESS - dst_start" (see WordsToTop)
    vectors_src,      \* copy_vectors: vectors_src
    vectors_dst,      \* copy_vectors: vectors_dst
    copy_pc,          \* copy_vectors: "entry", "forward", "backward" or "done"
    mem0,             \* history: the memory when copy_vectors was entered
    copied,           \* history: the number of words copy_vectors has copied
    pc,               \* the statement a driver function is at, "idle" between calls
    loc,              \* the arguments and local variables of the function that runs
    steps,            \* history: the loop iterations the function has made
    cpsr_I            \* bit 7 of the CPSR: TRUE when the processor takes no IRQ

picVars == <<isrNV, irqVect, VICVECTCNTLn, VICVECTADDRn, VICDEFVECTADDR, VICINTENABLE,
             irq_vector_mode, call, ret, regOrder, staleOps, log>>

copyVars == <<mem, vectors_start, vectors_end, dst_start, diffEval, vectors_src,
              vectors_dst, copy_pc, mem0, copied>>

stepVars == <<pc, loc, steps, cpsr_I>>

vars == <<picVars, copyVars, stepVars>>

Idx == 0..(NR_INTERRUPTS - 1)
Slots == 0..(NR_VECTORS - 1)

(***************************************************************************)
(* Table records and their "empty" values, as pic_init() writes them.      *)
(***************************************************************************)
NvRecord(irq, isr, param, priority) ==
    [irq |-> irq, isr |-> isr, param |-> param, priority |-> priority]

VectRecord(irq, isr, priority) ==
    [irq |-> irq, isr |-> isr, priority |-> priority]

EmptyNv == NvRecord(-1, irq_dummyNvISR, NULL, -1)

EmptyVect == VectRecord(-1, irq_dummyISR, -1)

(* A call: the function, its arguments, and 'pos', the value of the local   *)
(* variable 'pos' of an unregister function after its search loop (-1 for   *)
(* the other functions).                                                    *)
Call(op, irq, addr, param, priority, pos) ==
    [op |-> op, irq |-> irq, addr |-> addr, param |-> param, priority |-> priority,
     pos |-> pos]

(***************************************************************************)
(* Bit operations on a vector control register (6 significant bits).       *)
(***************************************************************************)
HasEnableBit(x) == (x \div BM_VECT_ENABLE_BIT) % 2 = 1

(* Mutant of OrEnableBit: the enable bit is not set. *)
OrEnableBit_Unset(x) == x

OrEnableBit(x) == IF HasEnableBit(x) THEN x ELSE x + BM_VECT_ENABLE_BIT

(* Mutant of ClearEnableBit: "& BM_VECT_ENABLE_BIT", the mask not inverted. *)
ClearEnableBit_NoInvert(x) == IF HasEnableBit(x) THEN BM_VECT_ENABLE_BIT ELSE 0

ClearEnableBit(x) == IF HasEnableBit(x) THEN x - BM_VECT_ENABLE_BIT ELSE x

(* Mutant of Prior: the priority is clamped to 127. *)
Prior_Clamped(priority) == IF priority > PRIORITY_MASK THEN PRIORITY_MASK ELSE priority

(* priority & 0x7F *)
Prior(priority) == priority % (PRIORITY_MASK + 1)

(* The least index satisfying a test, or -1: "for (i=0; ...) if (pos<0 && test) pos = i" *)
RECURSIVE FirstFrom(_, _)
FirstFrom(S, i) ==
    IF i >= NR_INTERRUPTS THEN -1 ELSE IF i \in S THEN i ELSE FirstFrom(S, i + 1)

FirstIndex(S) == FirstFrom(S, 0)

(* Mutant of BadArgs: the bound of the line number is off by one. *)
BadArgs_OffByOne(irq, addr) == irq > NR_INTERRUPTS \/ addr = NULL

(* Mutant of BadArgs: a NULL routine is accepted. *)
BadArgs_AcceptsNull(irq, addr) == irq >= NR_INTERRUPTS

(* "sanity check" of the register functions *)
BadArgs(irq, addr) == irq >= NR_INTERRUPTS \/ addr = NULL

(* irqPos: index of the existing 'irq' or of the first "empty" line *)
FindIrqPos(tab, irq) ==
    FirstIndex({i \in Idx : tab[i].irq < 0 \/ tab[i].irq = irq})

(* Mutant of FindPrPos: the comparison of priorities is left out, so the new *)
(* entry always goes to the first empty line.                                *)
FindPrPos_NoCompare(tab, prior) ==
    FirstIndex({i \in Idx : tab[i].priority < 0})

(* Mutant of FindPrPos: "not larger" instead of "less", so the new entry goes *)
(* before the entries of its own priority.                                    *)
FindPrPos_NotLarger(tab, prior) ==
    FirstIndex({i \in Idx : tab[i].priority < 0 \/ tab[i].priority <= prior})

(* prPos: index of the first entry whose priority is less than 'prior' *)
FindPrPos(tab, prior) ==
    FirstIndex({i \in Idx : tab[i].priority < 0 \/ tab[i].priority < prior})

(* index of 'irq' in the table, NR_INTERRUPTS if the loop runs to its end *)
(* Mutant of FindIrq: a line that is not found is taken to be at index 0. *)
FindIrq_DefaultsToFirst(tab, irq) ==
    IF \E i \in Idx : tab[i].irq = irq
    THEN FirstIndex({i \in Idx : tab[i].irq = irq})
    ELSE 0

FindIrq(tab, irq) ==
    IF \E i \in Idx : tab[i].irq = irq
    THEN FirstIndex({i \in Idx : tab[i].irq = irq})
    ELSE NR_INTERRUPTS

(***************************************************************************)
(* Non-vectored registry.                                                  *)
(***************************************************************************)
(* Mutant of NvShiftDown: the entries are not moved. *)
NvShiftDown_InPlace(tab, i, prPos) == tab

RECURSIVE NvShiftDown(_, _, _)
NvShiftDown(tab, i, prPos) ==
    IF i > prPos
    THEN NvShiftDown([tab EXCEPT ![i] = tab[i - 1]], i - 1, prPos)
    ELSE tab

RECURSIVE NvShiftUp(_, _, _)
NvShiftUp(tab, i, prPos) ==
    IF i < prPos
    THEN NvShiftUp([tab EXCEPT ![i] = tab[i + 1]], i + 1, prPos)
    ELSE tab

(* The body of pic_registerNonVectoredIrq: the new table and the return value. *)
NvRegister(tab, irq, addr, param, priority) ==
    LET prior == Prior(priority)
        irqPos == FindIrqPos(tab, irq)
        prPos == FindPrPos(tab, prior)
    IN  IF BadArgs(irq, addr)
        THEN [tab |-> tab, ret |-> -1]
        ELSE IF irqPos >= NR_INTERRUPTS \/ irqPos < 0 \/ prPos < 0
        THEN [tab |-> tab, ret |-> -1]
        ELSE LET t1 == IF irqPos > prPos THEN NvShiftDown(tab, irqPos, prPos) ELSE tab
                 pos == IF prPos > irqPos THEN prPos - 1 ELSE prPos
                 t2 == IF prPos > irqPos THEN NvShiftUp(t1, irqPos, pos) ELSE t1
             IN  [tab |-> [t2 EXCEPT ![pos] = NvRecord(irq, addr, param, prior)],
                  ret |-> pos]

(* Mutant of NvUnregister: the entry is reset in place, the entries after it  *)
(* are not shifted.                                                          *)
NvUnregister_NoShift(tab, irq) ==
    LET pos == FindIrq(tab, irq)
    IN  IF irq >= NR_INTERRUPTS \/ pos >= NR_INTERRUPTS
        THEN tab
        ELSE [tab EXCEPT ![pos] = EmptyNv]

(* The body of pic_unregisterNonVectoredIrq: the new table. *)
NvUnregister(tab, irq) ==
    LET pos == FindIrq(tab, irq)
    IN  IF irq >= NR_INTERRUPTS
        THEN tab
        ELSE IF pos >= NR_INTERRUPTS
        THEN tab
        ELSE [NvShiftUp(tab, pos, NR_INTERRUPTS - 1) EXCEPT ![NR_INTERRUPTS - 1] = EmptyNv]

pic_registerNonVectoredIrq(irq, addr, param, priority) ==
    \E r \in {NvRegister(isrNV, irq, addr, param, priority)} :
        /\ isrNV' = r.tab
        /\ ret' = r.ret
        /\ call' = Call("pic_registerNonVectoredIrq", irq, addr, param, priority, -1)
        /\ UNCHANGED <<irqVect, VICVECTCNTLn, VICVECTADDRn, VICDEFVECTADDR,
                       VICINTENABLE, irq_vector_mode>>

pic_unregisterNonVectoredIrq(irq) ==
    /\ isrNV' = NvUnregister(isrNV, irq)
    /\ ret' = 0
    /\ call' = Call("pic_unregisterNonVectoredIrq", irq, NULL, NULL, 0,
                  IF irq >= NR_INTERRUPTS THEN -1 ELSE FindIrq(isrNV, irq))
    /\ UNCHANGED <<irqVect, VICVECTCNTLn, VICVECTADDRn, VICDEFVECTADDR,
                   VICINTENABLE, irq_vector_mode>>

(***************************************************************************)
(* Vectored registry.  The table and its hardware mirror are changed in    *)
(* lockstep, so the loops work on the triple st = [t, c, a]:               *)
(* __irqVect, VICVECTCNTLn, VICVECTADDRn.                                  *)
(***************************************************************************)
VectState(t, c, a) == [t |-> t, c |-> c, a |-> a]

(* Mutant of VectSync: the registers of a slot whose line became "empty" are *)
(* not cleared.                                                              *)
VectSync_NoClear(st, i) ==
    IF i < NR_VECTORS /\ st.t[i].irq >= 0
    THEN [st EXCEPT !.c[i] = OrEnableBit(st.t[i].irq), !.a[i] = st.t[i].isr]
    ELSE st

(* "for i<16 also update PIC's vector address and control registers" *)
VectSync(st, i) ==
    IF i < NR_VECTORS
    THEN IF st.t[i].irq >= 0
         THEN [st EXCEPT !.c[i] = OrEnableBit(st.t[i].irq), !.a[i] = st.t[i].isr]
         ELSE [st EXCEPT !.c[i] = 0, !.a[i] = irq_dummyISR]
    ELSE st

(* Mutant of VectShiftDown: the table is shifted, the registers are not      *)
(* written.                                                                *)
RECURSIVE VectShiftDown_NoSync(_, _, _)
VectShiftDown_NoSync(st, i, prPos) ==
    IF i > prPos
    THEN VectShiftDown_NoSync([st EXCEPT !.t[i] = st.t[i - 1]], i - 1, prPos)
    ELSE st

RECURSIVE VectShiftDown(_, _, _)
VectShiftDown(st, i, prPos) ==
    IF i > prPos
    THEN VectShiftDown(VectSync([st EXCEPT !.t[i] = st.t[i - 1]], i), i - 1, prPos)
    ELSE st

RECURSIVE VectShiftUp(_, _, _)
VectShiftUp(st, i, prPos) ==
    IF i < prPos
    THEN VectShiftUp(VectSync([st EXCEPT !.t[i] = st.t[i + 1]], i), i + 1, prPos)
    ELSE st

(* The body of pic_registerVectorIrq: the new table and registers, and the return value. *)
VectRegister(st, irq, addr, priority) ==
    LET prior == Prior(priority)
        irqPos == FindIrqPos(st.t, irq)
        prPos == FindPrPos(st.t, prior)
    IN  IF BadArgs(irq, addr)
        THEN [st |-> st, ret |-> -1]
        ELSE IF irqPos >= NR_INTERRUPTS \/ irqPos < 0 \/ prPos < 0
        THEN [st |-> st, ret |-> -1]
        ELSE LET s1 == IF irqPos > prPos THEN VectShiftDown(st, irqPos, prPos) ELSE st
                 pos == IF prPos > irqPos THEN prPos - 1 ELSE prPos
                 s2 == IF prPos > irqPos THEN VectShiftUp(s1, irqPos, pos) ELSE s1
                 s3 == [s2 EXCEPT !.t[pos] = VectRecord(irq, addr, prior)]
             IN  [st |-> VectSync(s3, pos), ret |-> pos]

(* The shifting loop of pic_unregisterVectorIrq, from 'pos' to NR_INTERRUPTS-2. *)
RECURSIVE VectUnregisterShift(_, _)
VectUnregisterShift(st, pos) ==
    IF pos < NR_INTERRUPTS - 1
    THEN VectUnregisterShift(VectSync([st EXCEPT !.t[pos] = st.t[pos + 1]], pos), pos + 1)
    ELSE st

(* The body of pic_unregisterVectorIrq. *)
VectUnregister(st, irq) ==
    LET pos == FindIrq(st.t, irq)
    IN  IF irq >= NR_INTERRUPTS
        THEN st
        ELSE IF pos >= NR_INTERRUPTS
        THEN st
        ELSE [VectUnregisterShift(st, pos) EXCEPT !.t[NR_INTERRUPTS - 1] = EmptyVect]

(* The number of table entries the loop of pic_unregisterAllVectorIrqs clears. *)
UnregisterAllCount == NR_VECTORS

(* The body of pic_unregisterAllVectorIrqs. *)
VectUnregisterAll(st) ==
    [t |-> [i \in Idx |-> IF i < UnregisterAllCount THEN EmptyVect ELSE st.t[i]],
     c |-> [i \in Slots |-> IF i < UnregisterAllCount THEN 0 ELSE st.c[i]],
     a |-> [i \in Slots |-> IF i < UnregisterAllCount THEN irq_dummyISR ELSE st.a[i]]]

(* The slot pic_enableVectorIrq finds: the first of 0..15 holding 'irq', else NR_VECTORS. *)
FindSlot(t, irq) ==
    IF \E i \in Slots : t[i].irq = irq
    THEN FirstIndex({i \in Slots : t[i].irq = irq})
    ELSE NR_VECTORS

pic_registerVectorIrq(irq, addr, priority) ==
    \E r \in {VectRegister(VectState(irqVect, VICVECTCNTLn, VICVECTADDRn), irq, addr, priority)} :
        /\ irqVect' = r.st.t
        /\ VICVECTCNTLn' = r.st.c
        /\ VICVECTADDRn' = r.st.a
        /\ ret' = r.ret
        /\ call' = Call("pic_registerVectorIrq", irq, addr, NULL, priority, -1)
        /\ UNCHANGED <<isrNV, VICDEFVECTADDR, VICINTENABLE, irq_vector_mode>>

pic_unregisterVectorIrq(irq) ==
    \E s \in {VectUnregister(VectState(irqVect, VICVECTCNTLn, VICVECTADDRn), irq)} :
        /\ irqVect' = s.t
        /\ VICVECTCNTLn' = s.c
        /\ VICVECTADDRn' = s.a
        /\ ret' = 0
        /\ call' = Call("pic_unregisterVectorIrq", irq, NULL, NULL, 0,
                      IF irq >= NR_INTERRUPTS THEN -1 ELSE FindIrq(irqVect, irq))
        /\ UNCHANGED <<isrNV, VICDEFVECTADDR, VICINTENABLE, irq_vector_mode>>

pic_enableVectorIrq(irq) ==
    LET cntr == FindSlot(irqVect, irq)
    IN  /\ VICVECTCNTLn' = IF irq < NR_INTERRUPTS /\ cntr < NR_VECTORS
                           THEN [VICVECTCNTLn EXCEPT ![cntr] = OrEnableBit(@)]
                           ELSE VICVECTCNTLn
        /\ ret' = IF irq < NR_INTERRUPTS /\ cntr < NR_VECTORS THEN cntr ELSE -1
        /\ call' = Call("pic_enableVectorIrq", irq, NULL, NULL, 0, -1)
        /\ UNCHANGED <<isrNV, irqVect, VICVECTADDRn, VICDEFVECTADDR, VICINTENABLE,
                       irq_vector_mode>>

pic_disableVectorIrq(irq) ==
    /\ VICVECTCNTLn' = IF irq < NR_INTERRUPTS
                       THEN [i \in Slots |-> IF irqVect[i].irq = irq
                                             THEN ClearEnableBit(VICVECTCNTLn[i])
                                             ELSE VICVECTCNTLn[i]]
                       ELSE VICVECTCNTLn
    /\ ret' = 0
    /\ call' = Call("pic_disableVectorIrq", irq, NULL, NULL, 0, -1)
    /\ UNCHANGED <<isrNV, irqVect, VICVECTADDRn, VICDEFVECTADDR, VICINTENABLE,
                       irq_vector_mode>>

pic_unregisterAllVectorIrqs ==
    \E s \in {VectUnregisterAll(VectState(irqVect, VICVECTCNTLn, VICVECTADDRn))} :
        /\ irqVect' = s.t
        /\ VICVECTCNTLn' = s.c
        /\ VICVECTADDRn' = s.a
        /\ ret' = 0
        /\ call' = Call("pic_unregisterAllVectorIrqs", -1, NULL, NULL, 0, -1)
        /\ UNCHANGED <<isrNV, VICDEFVECTADDR, VICINTENABLE, irq_vector_mode>>

pic_set_irq_vector_mode(mode) ==
    /\ irq_vector_mode' = mode
    /\ ret' = 0
    /\ call' = Call("_pic_set_irq_vector_mode", -1, NULL, NULL, 0, -1)
    /\ UNCHANGED <<isrNV, irqVect, VICVECTCNTLn, VICVECTADDRn, VICDEFVECTADDR,
                   VICINTENABLE>>

(***************************************************************************)
(* copy_vectors (exception.c).  Memory is an array of 32-bit words and an  *)
(* address is the number of a word; the address space has AddrWords words  *)
(* (2^30 in the program) and pointer arithmetic wraps at its end.          *)
(***************************************************************************)
AddrWords == 8

Addr == 0..(AddrWords - 1)

(* The memory before the relocation: every word holds its own address, so  *)
(* that a word says where it came from.                                    *)
MemInit == [a \in Addr |-> a]

(* "(uint32_t* const) MAX_ADDRESS - dst_start" as the unsigned value that  *)
(* is compared with block_len.  MAX_ADDRESS is the last byte, so the       *)
(* difference is 4 * AddrWords - 1 - 4 * dst bytes.  Its type ptrdiff_t is *)
(* signed and as wide as a pointer: a difference of half the address space *)
(* or more is not representable and the subtraction is undefined.  What    *)
(* the build makes of it:                                                  *)
(*   "exact"  the quotient, as if computed without overflow;               *)
(*   "shift"  the wrapped, negative difference shifted right by 2 at run   *)
(*            time (gcc -O0): -1 - dst, a huge unsigned value;             *)
(*   "fold"   the wrapped difference divided, truncating towards zero, by  *)
(*            the compiler folding the constants (gcc -O1 and above):      *)
(*            -dst, which is 0 for dst_start = 0 and huge otherwise.       *)
DiffEvals == {"exact", "shift", "fold"}

(* Mutant of WordsToTop: no limit, the test of the range never fires. *)
WordsToTop_Unlimited(dst, eval) == 4 * AddrWords

WordsToTop(dst, eval) ==
    IF 4 * AddrWords - 1 - 4 * dst < 2 * AddrWords \/ eval = "exact"
    THEN AddrWords - 1 - dst
    ELSE IF eval = "shift"
    THEN 4 * AddrWords - 1 - dst
    ELSE (4 * AddrWords - dst) % (4 * AddrWords)

src_begin == IF vectors_start <= vectors_end THEN vectors_start ELSE vectors_end

src_end == IF vectors_end >= vectors_start THEN vectors_end ELSE vectors_start

block_len == src_end - src_begin

(* Mutant of BlockLenValue: the length of the block in every build. *)
BlockLenValue_Exact(eval) == block_len

(* The value the build gives the variable block_len.  "src_end - src_begin" *)
(* is a pointer difference too: for a block of half the address space or   *)
(* more the difference in bytes is not representable, and the builds that  *)
(* wrap (the subtraction, then an arithmetic shift right by 2) store       *)
(* block_len - AddrWords as an unsigned value.  It differs from block_len  *)
(* by a multiple of AddrWords, so "dst_start + block_len - 1" is the same  *)
(* address with either.                                                    *)
BlockLenValue(eval) ==
    IF 4 * block_len < 2 * AddrWords \/ eval = "exact"
    THEN block_len
    ELSE 3 * AddrWords + block_len

(* copy_vectors up to the first test of one of its loops *)
copy_vectors ==
    /\ copy_pc = "entry"
    /\ IF dst_start = src_begin
       THEN copy_pc' = "done" /\ UNCHANGED <<vectors_src, vectors_dst>>
       ELSE IF BlockLenValue(diffEval) > WordsToTop(dst_start, diffEval)
       THEN copy_pc' = "done" /\ UNCHANGED <<vectors_src, vectors_dst>>
       ELSE IF dst_start < src_begin \/ dst_start >= src_end
       THEN /\ vectors_src' = src_begin
            /\ vectors_dst' = dst_start
            /\ copy_pc' = "forward"
       ELSE /\ vectors_src' = src_end - 1
            /\ vectors_dst' = (dst_start + block_len - 1) % AddrWords
            /\ copy_pc' = "backward"
    /\ mem0' = mem
    /\ copied' = 0
    /\ UNCHANGED <<mem, vectors_start, vectors_end, dst_start, diffEval>>

(* "while (vectors_src < src_end) *vectors_dst++ = *vectors_src++;" *)
copy_forward ==
    /\ copy_pc = "forward"
    /\ IF vectors_src < src_end
       THEN /\ mem' = [mem EXCEPT ![vectors_dst] = mem[vectors_src]]
            /\ vectors_dst' = (vectors_dst + 1) % AddrWords
            /\ vectors_src' = (vectors_src + 1) % AddrWords
            /\ copied' = copied + 1
            /\ UNCHANGED copy_pc
       ELSE /\ copy_pc' = "done"
            /\ UNCHANGED <<mem, vectors_src, vectors_dst, copied>>
    /\ UNCHANGED <<vectors_start, vectors_end, dst_start, diffEval, mem0>>

(* "while ( vectors_dst >= dst_start ) *vectors_dst-- = *vectors_src--;" *)
copy_backward ==
    /\ copy_pc = "backward"
    /\ IF vectors_dst >= dst_start
       THEN /\ mem' = [mem EXCEPT ![vectors_dst] = mem[vectors_src]]
            /\ vectors_dst' = (vectors_dst + AddrWords - 1) % AddrWords
            /\ vectors_src' = (vectors_src + AddrWords - 1) % AddrWords
            /\ copied' = copied + 1
            /\ UNCHANGED copy_pc
       ELSE /\ copy_pc' = "done"
            /\ UNCHANGED <<mem, vectors_src, vectors_dst, copied>>
    /\ UNCHANGED <<vectors_start, vectors_end, dst_start, diffEval, mem0>>

(* Before the first instruction of copy_vectors, for every placement of the *)
(* labels and of the destination and every build.                           *)
InitCopy ==
    /\ mem = MemInit
    /\ mem0 = MemInit
    /\ vectors_start \in Addr
    /\ vectors_end \in Addr
    /\ dst_start \in Addr
    /\ diffEval \in DiffEvals
    /\ vectors_src = 0
    /\ vectors_dst = 0
    /\ copy_pc = "entry"
    /\ copied = 0

(* After a relocation that had nothing to move. *)
Relocated ==
    /\ mem = MemInit
    /\ mem0 = MemInit
    /\ vectors_start = 0
    /\ vectors_end = 0
    /\ dst_start = 0
    /\ diffEval = "exact"
    /\ vectors_src = 0
    /\ vectors_dst = 0
    /\ copy_pc = "done"
    /\ copied = 0

(***************************************************************************)
(* No function of the driver is running.                                   *)
(***************************************************************************)
NoCall ==
    [fn |-> "none", reg |-> "none", irq |-> -1, addr |-> NULL, param |-> NULL,
     priority |-> 0, prior |-> 0, i |-> 0, irqPos |-> -1, prPos |-> -1,
     h |-> <<{}, {}, 0>>, t0 |-> <<>>]

BetweenCalls ==
    /\ pc = "idle"
    /\ loc = NoCall
    /\ steps = 0
    /\ cpsr_I = FALSE

(***************************************************************************)
(* pic_init and the mode switch.                                           *)
(***************************************************************************)
(* Mutant of pic_init: only the entries that have a slot are cleared. *)
pic_init_SlotsOnly ==
    /\ VICINTENABLE' = {}
    /\ VICDEFVECTADDR' = defaultVectorIsr
    /\ irqVect' = [i \in Idx |-> IF i < NR_VECTORS THEN EmptyVect ELSE irqVect[i]]
    /\ VICVECTCNTLn' = [i \in Slots |-> 0]
    /\ VICVECTADDRn' = [i \in Slots |-> irq_dummyISR]
    /\ isrNV' = [i \in Idx |-> EmptyNv]
    /\ irq_vector_mode' = 0
    /\ ret' = 0
    /\ call' = Call("pic_init", -1, NULL, NULL, 0, -1)

pic_init ==
    /\ VICINTENABLE' = {}
    /\ VICDEFVECTADDR' = defaultVectorIsr
    /\ irqVect' = [i \in Idx |-> EmptyVect]
    /\ VICVECTCNTLn' = [i \in Slots |-> 0]
    /\ VICVECTADDRn' = [i \in Slots |-> irq_dummyISR]
    /\ isrNV' = [i \in Idx |-> EmptyNv]
    /\ irq_vector_mode' = 0
    /\ ret' = 0
    /\ call' = Call("pic_init", -1, NULL, NULL, 0, -1)

Init ==
    /\ VICINTENABLE = {}
    /\ VICDEFVECTADDR = defaultVectorIsr
    /\ irqVect = [i \in Idx |-> EmptyVect]
    /\ VICVECTCNTLn = [i \in Slots |-> 0]
    /\ VICVECTADDRn = [i \in Slots |-> irq_dummyISR]
    /\ isrNV = [i \in Idx |-> EmptyNv]
    /\ irq_vector_mode = 0
    /\ ret = 0
    /\ call = Call("pic_init", -1, NULL, NULL, 0, -1)
    /\ regOrder = <<>>
    /\ staleOps = 0
    /\ log = <<>>
    /\ Relocated
    /\ BetweenCalls

(***************************************************************************)
(* The interrupt enable register.                                          *)
(***************************************************************************)
pic_enableInterrupt(irq) ==
    /\ VICINTENABLE' = IF irq < NR_INTERRUPTS THEN VICINTENABLE \cup {irq} ELSE VICINTENABLE
    /\ ret' = 0
    /\ call' = Call("pic_enableInterrupt", irq, NULL, NULL, 0, -1)
    /\ UNCHANGED <<isrNV, irqVect, VICVECTCNTLn, VICVECTADDRn, VICDEFVECTADDR,
                   irq_vector_mode>>

pic_disableInterrupt(irq) ==
    /\ VICINTENABLE' = IF irq < NR_INTERRUPTS THEN VICINTENABLE \ {irq} ELSE VICINTENABLE
    /\ ret' = 0
    /\ call' = Call("pic_disableInterrupt", irq, NULL, NULL, 0, -1)
    /\ UNCHANGED <<isrNV, irqVect, VICVECTCNTLn, VICVECTADDRn, VICDEFVECTADDR,
                   irq_vector_mode>>

(***************************************************************************)
(* Interrupt dispatch.  The log of a dispatch is the sequence of its       *)
(* accesses to VICIRQSTATUS and VICVECTADDR and of the calls and returns   *)
(* of the routines it runs.  A status value is the set of its bits that    *)
(* are 1.                                                                  *)
(***************************************************************************)
ALL_ONES == "0xFFFFFFFF"

Read(reg, value) == <<"read", reg, value>>

Write(reg, value) == <<"write", reg, value>>

CallIsr(isr, param) == <<"call", isr, param>>

Return(isr) == <<"return", isr>>

(* __irq_dummyISR() only prints a warning. *)
DummyISR == <<CallIsr(irq_dummyISR, NULL), Return(irq_dummyISR)>>

(* __irq_dummyNvISR(NULL) calls __irq_dummyISR(). *)
DummyNvISR == <<CallIsr(irq_dummyNvISR, NULL)>> \o DummyISR \o <<Return(irq_dummyNvISR)>>

(* VICIRQSTATUS is a volatile hardware register: h = <<s1, s2, k>> says that *)
(* its reads number 0..k-1 of a dispatch return s1 and the later ones s2.    *)
StatusAt(h, n) == IF n < h[3] THEN h[1] ELSE h[2]

(* Mutant of NvScan: the loop ends after the first routine it runs. *)
RECURSIVE NvScan_FirstOnly(_, _, _, _)
NvScan_FirstOnly(tab, h, i, lg) ==
    IF i < NR_INTERRUPTS /\ ~(tab[i].irq < 0 \/ tab[i].irq >= NR_INTERRUPTS)
    THEN LET status == StatusAt(h, i)
             l1 == Append(lg, Read("VICIRQSTATUS", status))
         IN  IF tab[i].irq \in status
             THEN [i |-> i, log |-> l1 \o <<CallIsr(tab[i].isr, tab[i].param), Return(tab[i].isr)>>]
             ELSE NvScan_FirstOnly(tab, h, i + 1, l1)
    ELSE [i |-> i, log |-> lg]

(* Mutant of NvScan: VICIRQSTATUS is read into a local variable before the   *)
(* loop, once.                                                               *)
RECURSIVE NvScan_SampledOnce(_, _, _, _)
NvScan_SampledOnce(tab, h, i, lg) ==
    IF i < NR_INTERRUPTS /\ ~(tab[i].irq < 0 \/ tab[i].irq >= NR_INTERRUPTS)
    THEN LET l1 == IF i = 0 THEN Append(lg, Read("VICIRQSTATUS", StatusAt(h, 0))) ELSE lg
         IN  NvScan_SampledOnce(tab, h, i + 1,
                    IF tab[i].irq \in StatusAt(h, 0)
                    THEN l1 \o <<CallIsr(tab[i].isr, tab[i].param), Return(tab[i].isr)>>
                    ELSE l1)
    ELSE [i |-> i, log |-> lg]

(* The loop of the non-vectored branch from index i on: the value of i after *)
(* the loop, and the log.  A user routine does nothing but return.           *)
RECURSIVE NvScan(_, _, _, _)
NvScan(tab, h, i, lg) ==
    IF i < NR_INTERRUPTS /\ ~(tab[i].irq < 0 \/ tab[i].irq >= NR_INTERRUPTS)
    THEN LET status == StatusAt(h, i)
             l1 == Append(lg, Read("VICIRQSTATUS", status))
         IN  NvScan(tab, h, i + 1,
                    IF tab[i].irq \in status
                    THEN l1 \o <<CallIsr(tab[i].isr, tab[i].param), Return(tab[i].isr)>>
                    ELSE l1)
    ELSE [i |-> i, log |-> lg]

(* The non-vectored branch of _pic_IrqHandler. *)
IrqHandlerNv(tab, h) ==
    LET r == NvScan(tab, h, 0, <<>>)
    IN  IF r.i >= NR_INTERRUPTS THEN r.log \o DummyNvISR ELSE r.log

(* The loop of __defaultVectorIsr from index cntr on. *)
RECURSIVE DefaultVectorScan(_, _, _)
DefaultVectorScan(t, enabled, cntr) ==
    IF cntr < NR_INTERRUPTS
    THEN IF t[cntr].irq >= 0 /\ t[cntr].irq < NR_INTERRUPTS /\ t[cntr].irq \in enabled
         THEN [cntr |-> cntr, log |-> <<CallIsr(t[cntr].isr, NULL), Return(t[cntr].isr)>>]
         ELSE DefaultVectorScan(t, enabled, cntr + 1)
    ELSE [cntr |-> cntr, log |-> <<>>]

(* Mutant of DefaultVectorIsrBody: the scan starts at entry 0. *)
DefaultVectorIsrBody_FromZero(t, enabled) ==
    LET r == DefaultVectorScan(t, enabled, 0)
    IN  IF r.cntr >= NR_INTERRUPTS THEN r.log \o DummyISR ELSE r.log

(* The body of __defaultVectorIsr. *)
DefaultVectorIsrBody(t, enabled) ==
    LET r == DefaultVectorScan(t, enabled, NR_VECTORS)
    IN  IF r.cntr >= NR_INTERRUPTS THEN r.log \o DummyISR ELSE r.log

(* A call of the routine at address isrAddr, up to its return. *)
RunVectoredIsr(isrAddr, t, enabled) ==
    IF isrAddr = defaultVectorIsr
    THEN <<CallIsr(isrAddr, NULL)>> \o DefaultVectorIsrBody(t, enabled) \o <<Return(isrAddr)>>
    ELSE <<CallIsr(isrAddr, NULL), Return(isrAddr)>>

(* Mutant of IrqHandlerVect: the completion is acknowledged before the     *)
(* routine runs.                                                           *)
IrqHandlerVect_AckFirst(isrAddr, t, enabled) ==
    <<Read("VICVECTADDR", isrAddr), Write("VICVECTADDR", ALL_ONES)>>
        \o RunVectoredIsr(isrAddr, t, enabled)

(* The vectored branch of _pic_IrqHandler; isrAddr is the value the read of *)
(* VICVECTADDR returns.                                                     *)
IrqHandlerVect(isrAddr, t, enabled) ==
    <<Read("VICVECTADDR", isrAddr)>> \o RunVectoredIsr(isrAddr, t, enabled)
        \o <<Write("VICVECTADDR", ALL_ONES)>>

(* The addresses the controller can present in VICVECTADDR: the address of  *)
(* an enabled vector slot, or the default vector address.                   *)
VectAddrReads ==
    {VICVECTADDRn[k] : k \in {j \in Slots : HasEnableBit(VICVECTCNTLn[j])}} \cup {VICDEFVECTADDR}

(* irq_disableIrqMode() sets bit 7 of the CPSR, irq_enableIrqMode() clears it. *)
irq_disableIrqMode ==
    /\ cpsr_I' = TRUE
    /\ UNCHANGED <<picVars, copyVars, pc, loc, steps>>

irq_enableIrqMode ==
    /\ cpsr_I' = FALSE
    /\ UNCHANGED <<picVars, copyVars, pc, loc, steps>>

(* Mutant of pic_IrqHandler: only a positive mode is the vectored mode. *)
pic_IrqHandler_PositiveOnly(h, isrAddr) ==
    /\ log' = IF irq_vector_mode <= 0
              THEN IrqHandlerNv(isrNV, h)
              ELSE IrqHandlerVect(isrAddr, irqVect, VICINTENABLE)
    /\ ret' = 0
    /\ call' = Call("_pic_IrqHandler", -1, NULL, NULL, 0, -1)
    /\ UNCHANGED <<isrNV, irqVect, VICVECTCNTLn, VICVECTADDRn, VICDEFVECTADDR,
                   VICINTENABLE, irq_vector_mode>>

pic_IrqHandler(h, isrAddr) ==
    /\ log' = IF irq_vector_mode = 0
              THEN IrqHandlerNv(isrNV, h)
              ELSE IrqHandlerVect(isrAddr, irqVect, VICINTENABLE)
    /\ ret' = 0
    /\ call' = Call("_pic_IrqHandler", -1, NULL, NULL, 0, -1)
    /\ UNCHANGED <<isrNV, irqVect, VICVECTCNTLn, VICVECTADDRn, VICDEFVECTADDR,
                   VICINTENABLE, irq_vector_mode>>

(***************************************************************************)
(* The functions statement by statement.  A call is entered with pc =      *)
(* "idle", every iteration of a loop is one step, and the function returns *)
(* to pc = "idle".  'loc' holds the arguments and the local variables (i   *)
(* is the loop counter: i, pos or cntr), 'steps' counts the iterations.    *)
(* The two registries have the same code up to the registers of the slots, *)
(* so the steps take the registry, "nv" or "vect", from loc.reg.           *)
(***************************************************************************)
TabOf(reg) == IF reg = "nv" THEN isrNV ELSE irqVect

(* the registry of a call as the functions that make the call at once take it *)
Snapshot(reg) ==
    IF reg = "nv" THEN isrNV ELSE VectState(irqVect, VICVECTCNTLn, VICVECTADDRn)

(* "__isrNV[i] = rec", or "__irqVect[i] = rec" with the registers of slot i *)
StoreEntry(reg, i, rec) ==
    IF reg = "nv"
    THEN /\ isrNV' = [isrNV EXCEPT ![i] = rec]
         /\ UNCHANGED <<irqVect, VICVECTCNTLn, VICVECTADDRn>>
    ELSE \E s \in {VectSync(VectState([irqVect EXCEPT ![i] = rec], VICVECTCNTLn,
                                      VICVECTADDRn), i)} :
            /\ irqVect' = s.t
            /\ VICVECTCNTLn' = s.c
            /\ VICVECTADDRn' = s.a
            /\ UNCHANGED isrNV

RegistryUnchanged == UNCHANGED <<isrNV, irqVect, VICVECTCNTLn, VICVECTADDRn>>

(* the rest of the controller, which no step of these functions writes *)
StepFrame == UNCHANGED <<VICDEFVECTADDR, VICINTENABLE, irq_vector_mode, cpsr_I>>

RegisterFn(reg) ==
    IF reg = "nv" THEN "pic_registerNonVectoredIrq" ELSE "pic_registerVectorIrq"

UnregisterFn(reg) ==
    IF reg = "nv" THEN "pic_unregisterNonVectoredIrq" ELSE "pic_unregisterVectorIrq"

(* "return r;": the local variables are gone *)
StepReturn(l, r) ==
    /\ pc' = "idle"
    /\ loc' = NoCall
    /\ steps' = 0
    /\ ret' = r
    /\ call' = Call(l.fn, l.irq, l.addr, l.param, l.priority, -1)

(* the call is made and the function is at its first loop *)
StepEnter(label, l) ==
    /\ pc' = label
    /\ loc' = l
    /\ steps' = 0
    /\ ret' = 0
    /\ call' = Call(l.fn, l.irq, l.addr, l.param, l.priority, -1)

(* a step inside a function, after which it has made n iterations *)
StepInside(label, l, n) ==
    /\ pc' = label
    /\ loc' = l
    /\ steps' = n
    /\ UNCHANGED <<ret, call>>

(* Entry of a register function, up to the first test of its search loop. *)
register_enter(reg, irq, addr, param, priority) ==
    /\ pc = "idle"
    /\ \E l \in {[NoCall EXCEPT !.fn = RegisterFn(reg), !.reg = reg, !.irq = irq,
                                !.addr = addr, !.param = param, !.priority = priority,
                                !.prior = Prior(priority), !.t0 = Snapshot(reg)]} :
          IF BadArgs(irq, addr) THEN StepReturn(l, -1) ELSE StepEnter("reg_search", l)
    /\ RegistryUnchanged
    /\ StepFrame
    /\ log' = <<>>

(* Mutant of register_search: "not larger" instead of "less" in the search   *)
(* of prPos.                                                                 *)
register_search_NotLarger ==
    /\ pc = "reg_search"
    /\ \E t \in {TabOf(loc.reg)} : \E i \in {loc.i} :
          IF i < NR_INTERRUPTS
          THEN /\ StepInside("reg_search",
                     [loc EXCEPT !.irqPos = IF @ < 0 /\ (t[i].irq < 0 \/ t[i].irq = loc.irq)
                                            THEN i ELSE @,
                                 !.prPos = IF @ < 0 /\ (t[i].priority < 0
                                                        \/ t[i].priority <= loc.prior)
                                           THEN i ELSE @,
                                 !.i = i + 1], steps + 1)
          ELSE /\ IF loc.irqPos >= NR_INTERRUPTS \/ loc.irqPos < 0 \/ loc.prPos < 0
                  THEN StepReturn(loc, -1)
                  ELSE IF loc.irqPos > loc.prPos
                  THEN StepInside("reg_down", [loc EXCEPT !.i = loc.irqPos], steps)
                  ELSE IF loc.prPos > loc.irqPos
                  THEN StepInside("reg_up", [loc EXCEPT !.prPos = @ - 1, !.i = loc.irqPos],
                                  steps)
                  ELSE StepInside("reg_fill", loc, steps)
    /\ RegistryUnchanged
    /\ StepFrame
    /\ UNCHANGED log

(* One test of "i<NR_INTERRUPTS" of the search loop, and the iteration or   *)
(* the statements after the loop up to the first test of a shifting loop.   *)
register_search ==
    /\ pc = "reg_search"
    /\ \E t \in {TabOf(loc.reg)} : \E i \in {loc.i} :
          IF i < NR_INTERRUPTS
          THEN /\ StepInside("reg_search",
                     [loc EXCEPT !.irqPos = IF @ < 0 /\ (t[i].irq < 0 \/ t[i].irq = loc.irq)
                                            THEN i ELSE @,
                                 !.prPos = IF @ < 0 /\ (t[i].priority < 0
                                                        \/ t[i].priority < loc.prior)
                                           THEN i ELSE @,
                                 !.i = i + 1], steps + 1)
          ELSE /\ IF loc.irqPos >= NR_INTERRUPTS \/ loc.irqPos < 0 \/ loc.prPos < 0
                  THEN StepReturn(loc, -1)
                  ELSE IF loc.irqPos > loc.prPos
                  THEN StepInside("reg_down", [loc EXCEPT !.i = loc.irqPos], steps)
                  ELSE IF loc.prPos > loc.irqPos
                  THEN StepInside("reg_up", [loc EXCEPT !.prPos = @ - 1, !.i = loc.irqPos],
                                  steps)
                  ELSE StepInside("reg_fill", loc, steps)
    /\ RegistryUnchanged
    /\ StepFrame
    /\ UNCHANGED log

(* "for ( i=irqPos; i>prPos; --i )": one test and one iteration *)
register_down ==
    /\ pc = "reg_down"
    /\ IF loc.i > loc.prPos
       THEN /\ StoreEntry(loc.reg, loc.i, TabOf(loc.reg)[loc.i - 1])
            /\ StepInside("reg_down", [loc EXCEPT !.i = @ - 1], steps + 1)
       ELSE /\ StepInside("reg_fill", loc, steps)
            /\ RegistryUnchanged
    /\ StepFrame
    /\ UNCHANGED log

(* "for ( i=irqPos; i<prPos; ++i )": one test and one iteration *)
register_up ==
    /\ pc = "reg_up"
    /\ IF loc.i < loc.prPos
       THEN /\ StoreEntry(loc.reg, loc.i, TabOf(loc.reg)[loc.i + 1])
            /\ StepInside("reg_up", [loc EXCEPT !.i = @ + 1], steps + 1)
       ELSE /\ StepInside("reg_fill", loc, steps)
            /\ RegistryUnchanged
    /\ StepFrame
    /\ UNCHANGED log

(* Mutant of register_fill: the entry at 'irqPos' is filled. *)
register_fill_AtIrqPos ==
    /\ pc = "reg_fill"
    /\ StoreEntry(loc.reg, loc.irqPos,
                  IF loc.reg = "nv"
                  THEN NvRecord(loc.irq, loc.addr, loc.param, loc.prior)
                  ELSE VectRecord(loc.irq, loc.addr, loc.prior))
    /\ StepReturn(loc, loc.prPos)
    /\ StepFrame
    /\ UNCHANGED log

(* "finally fill the entry at 'prPos' with the input values" *)
register_fill ==
    /\ pc = "reg_fill"
    /\ StoreEntry(loc.reg, loc.prPos,
                  IF loc.reg = "nv"
                  THEN NvRecord(loc.irq, loc.addr, loc.param, loc.prior)
                  ELSE VectRecord(loc.irq, loc.addr, loc.prior))
    /\ StepReturn(loc, loc.prPos)
    /\ StepFrame
    /\ UNCHANGED log

(* Entry of an unregister function, up to the first test of its search loop. *)
unregister_enter(reg, irq) ==
    /\ pc = "idle"
    /\ \E l \in {[NoCall EXCEPT !.fn = UnregisterFn(reg), !.reg = reg, !.irq = irq,
                                !.t0 = Snapshot(reg)]} :
          IF irq >= NR_INTERRUPTS THEN StepReturn(l, 0) ELSE StepEnter("unreg_search", l)
    /\ RegistryUnchanged
    /\ StepFrame
    /\ log' = <<>>

(* Mutant of unregister_search: 'pos' is not incremented. *)
unregister_search_NoIncrement ==
    /\ pc = "unreg_search"
    /\ IF loc.i < NR_INTERRUPTS
       THEN /\ IF TabOf(loc.reg)[loc.i].irq = loc.irq
               THEN StepInside("unreg_shift", loc, steps + 1)
               ELSE StepInside("unreg_search", loc, steps + 1)
       ELSE /\ StepReturn(loc, 0)
    /\ RegistryUnchanged
    /\ StepFrame
    /\ UNCHANGED log

(* "for ( pos=0; pos<NR_INTERRUPTS; ++pos )" with its break, and the test   *)
(* after the loop *)
unregister_search ==
    /\ pc = "unreg_search"
    /\ IF loc.i < NR_INTERRUPTS
       THEN /\ IF TabOf(loc.reg)[loc.i].irq = loc.irq
               THEN StepInside("unreg_shift", loc, steps + 1)
               ELSE StepInside("unreg_search", [loc EXCEPT !.i = @ + 1], steps + 1)
       ELSE /\ StepReturn(loc, 0)
    /\ RegistryUnchanged
    /\ StepFrame
    /\ UNCHANGED log

(* "for ( ; pos<NR_INTERRUPTS-1; ++pos )": one test and one iteration, and   *)
(* after the loop the reset of the last entry *)
unregister_shift ==
    /\ pc = "unreg_shift"
    /\ IF loc.i < NR_INTERRUPTS - 1
       THEN /\ StoreEntry(loc.reg, loc.i, TabOf(loc.reg)[loc.i + 1])
            /\ StepInside("unreg_shift", [loc EXCEPT !.i = @ + 1], steps + 1)
       ELSE /\ IF loc.reg = "nv"
               THEN /\ isrNV' = [isrNV EXCEPT ![NR_INTERRUPTS - 1] = EmptyNv]
                    /\ UNCHANGED <<irqVect, VICVECTCNTLn, VICVECTADDRn>>
               ELSE /\ irqVect' = [irqVect EXCEPT ![NR_INTERRUPTS - 1] = EmptyVect]
                    /\ UNCHANGED <<isrNV, VICVECTCNTLn, VICVECTADDRn>>
            /\ StepReturn(loc, 0)
    /\ StepFrame
    /\ UNCHANGED log

(* Entry of pic_unregisterAllVectorIrqs. *)
unregisterAll_enter ==
    /\ pc = "idle"
    /\ StepEnter("all_loop", [NoCall EXCEPT !.fn = "pic_unregisterAllVectorIrqs",
                                           !.reg = "vect", !.t0 = Snapshot("vect")])
    /\ RegistryUnchanged
    /\ StepFrame
    /\ log' = <<>>

(* "for ( i=0; i<NR_VECTORS; ++i )": one test and one iteration *)
unregisterAll_loop ==
    /\ pc = "all_loop"
    /\ IF loc.i < NR_VECTORS
       THEN /\ irqVect' = [irqVect EXCEPT ![loc.i] = EmptyVect]
            /\ VICVECTCNTLn' = [VICVECTCNTLn EXCEPT ![loc.i] = 0]
            /\ VICVECTADDRn' = [VICVECTADDRn EXCEPT ![loc.i] = irq_dummyISR]
            /\ UNCHANGED isrNV
            /\ StepInside("all_loop", [loc EXCEPT !.i = @ + 1], steps + 1)
       ELSE /\ StepReturn(loc, 0)
            /\ RegistryUnchanged
    /\ StepFrame
    /\ UNCHANGED log

(* Entry of _pic_IrqHandler: the test of the mode and, in the vectored mode, *)
(* the read of VICVECTADDR and the call of the routine at that address.      *)
IrqHandler_enter(h, isrAddr) ==
    /\ pc = "idle"
    /\ \E l \in {[NoCall EXCEPT !.fn = "_pic_IrqHandler", !.h = h, !.addr = isrAddr]} :
          IF irq_vector_mode = 0
          THEN /\ StepEnter("nv_loop", [l EXCEPT !.reg = "nv", !.addr = NULL])
               /\ log' = <<>>
          ELSE IF isrAddr = defaultVectorIsr
          THEN /\ StepEnter("def_loop", [l EXCEPT !.reg = "vect", !.i = NR_VECTORS])
               /\ log' = <<Read("VICVECTADDR", isrAddr), CallIsr(isrAddr, NULL)>>
          ELSE /\ StepEnter("vect_ack", [l EXCEPT !.reg = "vect"])
               /\ log' = <<Read("VICVECTADDR", isrAddr), CallIsr(isrAddr, NULL),
                           Return(isrAddr)>>
    /\ RegistryUnchanged
    /\ StepFrame

(* The loop of the non-vectored branch: one test and one iteration, and      *)
(* after the loop the call of the dummy routine.                             *)
IrqHandler_nvLoop ==
    /\ pc = "nv_loop"
    /\ \E i \in {loc.i} :
          IF i < NR_INTERRUPTS /\ ~(isrNV[i].irq < 0 \/ isrNV[i].irq >= NR_INTERRUPTS)
          THEN /\ \E status \in {StatusAt(loc.h, i)} :
                     log' = Append(log, Read("VICIRQSTATUS", status))
                              \o IF isrNV[i].irq \in status
                                 THEN <<CallIsr(isrNV[i].isr, isrNV[i].param),
                                        Return(isrNV[i].isr)>>
                                 ELSE <<>>
               /\ StepInside("nv_loop", [loc EXCEPT !.i = @ + 1], steps + 1)
          ELSE /\ log' = IF i >= NR_INTERRUPTS THEN log \o DummyNvISR ELSE log
               /\ StepReturn(loc, 0)
    /\ RegistryUnchanged
    /\ StepFrame

(* Mutant of defaultVectorIsr_loop: the entry is selected by the asserted    *)
(* lines (VICIRQSTATUS) instead of the enabled ones.                          *)
defaultVectorIsr_loop_ByStatus ==
    /\ pc = "def_loop"
    /\ \E c \in {loc.i} :
          IF c < NR_INTERRUPTS /\ ~(irqVect[c].irq >= 0 /\ irqVect[c].irq < NR_INTERRUPTS
                                    /\ irqVect[c].irq \in StatusAt(loc.h, 0))
          THEN /\ StepInside("def_loop", [loc EXCEPT !.i = @ + 1], steps + 1)
               /\ UNCHANGED log
          ELSE /\ log' = log \o (IF c < NR_INTERRUPTS
                                 THEN <<CallIsr(irqVect[c].isr, NULL), Return(irqVect[c].isr)>>
                                 ELSE DummyISR)
                             \o <<Return(defaultVectorIsr)>>
               /\ StepInside("vect_ack", loc, IF c < NR_INTERRUPTS THEN steps + 1 ELSE steps)
    /\ RegistryUnchanged
    /\ StepFrame

(* The loop of __defaultVectorIsr: one test and one iteration; after the     *)
(* loop the call of the dummy routine and the return to _pic_IrqHandler.     *)
defaultVectorIsr_loop ==
    /\ pc = "def_loop"
    /\ \E c \in {loc.i} :
          IF c < NR_INTERRUPTS /\ ~(irqVect[c].irq >= 0 /\ irqVect[c].irq < NR_INTERRUPTS
                                    /\ irqVect[c].irq \in VICINTENABLE)
          THEN /\ StepInside("def_loop", [loc EXCEPT !.i = @ + 1], steps + 1)
               /\ UNCHANGED log
          ELSE /\ log' = log \o (IF c < NR_INTERRUPTS
                                 THEN <<CallIsr(irqVect[c].isr, NULL), Return(irqVect[c].isr)>>
                                 ELSE DummyISR)
                             \o <<Return(defaultVectorIsr)>>
               /\ StepInside("vect_ack", loc, IF c < NR_INTERRUPTS THEN steps + 1 ELSE steps)
    /\ RegistryUnchanged
    /\ StepFrame

(* "pPicReg->VICVECTADDR = 0xFFFFFFFF;" *)
IrqHandler_ack ==
    /\ pc = "vect_ack"
    /\ log' = Append(log, Write("VICVECTADDR", ALL_ONES))
    /\ StepReturn(loc, 0)
    /\ RegistryUnchanged
    /\ StepFrame

(* A function continues with its next step. *)
StepRun ==
    \/ register_search
    \/ register_down
    \/ register_up
    \/ register_fill
    \/ unregister_search
    \/ unregister_shift
    \/ unregisterAll_loop
    \/ IrqHandler_nvLoop
    \/ defaultVectorIsr_loop
    \/ IrqHandler_ack

(***************************************************************************)
(* The caller.  Occupied(tab) are the lines a table holds.  A bulk line is *)
(* registered only when the table holds every smaller bulk line and no     *)
(* larger one, with BulkIsr and its own priority, and is not unregistered  *)
(* on its own.  Free lines are registered and unregistered at any time with    *)
(* any routine and any priority of PrioInputs.  A call with an invalid     *)
(* line or a NULL routine may be made at any time.  A non-vectored routine *)
(* is registered with the parameter ParamOf(routine).                      *)
(***************************************************************************)
Occupied(tab) == {tab[i].irq : i \in {j \in Idx : tab[j].irq >= 0}}

NextBulk(tab) ==
    LET occ == Occupied(tab) \cap BulkLines
        next == MaxFree + 1 + Cardinality(occ)
    IN  IF next < NR_INTERRUPTS /\ occ = (MaxFree + 1)..(next - 1) THEN {next} ELSE {}

(* <<irq, addr, priority>> of the calls of a register function *)
ValidRegArgs(tab) ==
    (FreeLines \X UserIsrs \X PrioInputs) \cup {<<l, BulkIsr, BulkPrio(l)>> : l \in NextBulk(tab)}

InvalidRegArgs ==
    (InvalidLines \X {BulkIsr} \X {BulkPriority}) \cup (FreeLines \X {NULL} \X {BulkPriority})

RegArgs(tab) == ValidRegArgs(tab) \cup InvalidRegArgs

LineArgs == FreeLines \cup InvalidLines

(* The lines of the calls of pic_enableVectorIrq and pic_disableVectorIrq:  *)
(* the first bulk line of the lower priority, which is in a hardware slot   *)
(* or below the slots depending on the lines registered, and the invalid    *)
(* lines.                                                                   *)
ToggleArgs == {BulkStride} \cup InvalidLines

(***************************************************************************)
(* Spec: the documented use of the driver.  The handling mode is fixed *)
(* once, right after pic_init and before any registration, and the caller  *)
(* works with the registry of that mode; pic_init may be called again at   *)
(* any time.                                                               *)
(***************************************************************************)
TablesEmpty == Occupied(isrNV) = {} /\ Occupied(irqVect) = {}

(* One more call on the vectored registry. *)
VectCall ==
    /\ staleOps <= MaxStaleOps
    /\ staleOps' = IF staleOps > 0 THEN staleOps + 1 ELSE 0

BootSetMode ==
    /\ TablesEmpty
    /\ \E mode \in {0, 1} : pic_set_irq_vector_mode(mode)
    /\ UNCHANGED <<regOrder, staleOps, copyVars, stepVars>>
    /\ log' = <<>>

BootInit ==
    /\ pic_init
    /\ staleOps' = 0
    /\ UNCHANGED <<regOrder, copyVars, stepVars>>
    /\ log' = <<>>

BootRegisterNv ==
    /\ irq_vector_mode = 0
    /\ \E a \in RegArgs(isrNV) :
          pic_registerNonVectoredIrq(a[1], a[2], ParamOf(a[2]), a[3])
    /\ UNCHANGED <<regOrder, staleOps, copyVars, stepVars>>
    /\ log' = <<>>

BootUnregisterNv ==
    /\ irq_vector_mode = 0
    /\ \E irq \in LineArgs : pic_unregisterNonVectoredIrq(irq)
    /\ UNCHANGED <<regOrder, staleOps, copyVars, stepVars>>
    /\ log' = <<>>

BootRegisterVect ==
    /\ irq_vector_mode # 0
    /\ \E a \in RegArgs(irqVect) : pic_registerVectorIrq(a[1], a[2], a[3])
    /\ VectCall
    /\ UNCHANGED <<regOrder, copyVars, stepVars>>
    /\ log' = <<>>

BootUnregisterVect ==
    /\ irq_vector_mode # 0
    /\ \E irq \in LineArgs : pic_unregisterVectorIrq(irq)
    /\ VectCall
    /\ UNCHANGED <<regOrder, copyVars, stepVars>>
    /\ log' = <<>>

BootEnableVect ==
    /\ irq_vector_mode # 0
    /\ \E irq \in ToggleArgs : pic_enableVectorIrq(irq)
    /\ VectCall
    /\ UNCHANGED <<regOrder, copyVars, stepVars>>
    /\ log' = <<>>

BootDisableVect ==
    /\ irq_vector_mode # 0
    /\ \E irq \in ToggleArgs : pic_disableVectorIrq(irq)
    /\ VectCall
    /\ UNCHANGED <<regOrder, copyVars, stepVars>>
    /\ log' = <<>>

BootUnregisterAll ==
    /\ irq_vector_mode # 0
    /\ staleOps <= MaxStaleOps
    /\ pic_unregisterAllVectorIrqs
    /\ staleOps' = IF staleOps > 0 THEN staleOps + 1
                   ELSE IF Occupied(irqVect') # {} THEN 1 ELSE 0
    /\ UNCHANGED <<regOrder, copyVars, stepVars>>
    /\ log' = <<>>

(* Registration and unregistration only. *)
NextRU ==
    \/ BootInit
    \/ BootSetMode
    \/ BootRegisterNv
    \/ BootUnregisterNv
    \/ BootRegisterVect
    \/ BootUnregisterVect

SpecRU == Init /\ [][NextRU]_vars

(* Registration, unregistration, and the enable bits of the vector slots. *)
NextED ==
    \/ NextRU
    \/ BootEnableVect
    \/ BootDisableVect

SpecED == Init /\ [][NextED]_vars

(* Every public operation. *)
Next ==
    \/ NextRU
    \/ BootEnableVect
    \/ BootDisableVect
    \/ BootUnregisterAll

Spec == Init /\ [][Next]_vars

(***************************************************************************)
(* SpecDistinct: after pic_init, registrations of distinct lines only:     *)
(* every call registers a line its table does not hold yet.  regOrder      *)
(* records the lines in the order of their registration.                   *)
(***************************************************************************)
DistinctArgs(tab) ==
    {a \in (FreeLines \X {"isr2"} \X PrioInputs) \cup
           {<<l, BulkIsr, BulkPrio(l)>> : l \in NextBulk(tab)} : a[1] \notin Occupied(tab)}

DistinctSetMode ==
    /\ TablesEmpty
    /\ \E mode \in {0, 1} : pic_set_irq_vector_mode(mode)
    /\ UNCHANGED <<regOrder, staleOps, copyVars, stepVars>>
    /\ log' = <<>>

DistinctRegisterNv ==
    /\ irq_vector_mode = 0
    /\ \E a \in DistinctArgs(isrNV) :
          /\ pic_registerNonVectoredIrq(a[1], a[2], ParamOf(a[2]), a[3])
          /\ regOrder' = Append(regOrder, a[1])
    /\ UNCHANGED <<staleOps, copyVars, stepVars>>
    /\ log' = <<>>

DistinctRegisterVect ==
    /\ irq_vector_mode # 0
    /\ \E a \in DistinctArgs(irqVect) :
          /\ pic_registerVectorIrq(a[1], a[2], a[3])
          /\ regOrder' = Append(regOrder, a[1])
    /\ UNCHANGED <<staleOps, copyVars, stepVars>>
    /\ log' = <<>>

NextDistinct ==
    \/ DistinctSetMode
    \/ DistinctRegisterNv
    \/ DistinctRegisterVect

SpecDistinct == Init /\ [][NextDistinct]_vars

(***************************************************************************)
(* SpecIrq: the driver in service.  The caller registers the lines in      *)
(* ascending order, line l with its own routine and context and with the   *)
(* priority BulkPrio(l), enables and disables lines, and interrupts are    *)
(* dispatched in every state on the way, from the empty table to the full  *)
(* one.  During a non-vectored dispatch VICIRQSTATUS shows one of          *)
(* StatusInputs and may change once to another, before one of its first    *)
(* reads.                                                                  *)
(***************************************************************************)
MaxChangeAt == 2

IrqIsr(l) == "isr" \o ToString(l)

IrqCtx(l) == "ctx" \o ToString(l)

NextLine(tab) ==
    LET n == Cardinality(Occupied(tab))
    IN  IF n < NR_INTERRUPTS /\ Occupied(tab) = 0..(n - 1) THEN {n} ELSE {}

StatusInputs == {{}, {1, 3}, {2, 3, BulkStride}, Idx}

StatusHistories == StatusInputs \X StatusInputs \X (1..MaxChangeAt)

EnableArgs == {0, 19, 24, NR_INTERRUPTS}

IrqRegisterNv ==
    /\ irq_vector_mode = 0
    /\ \E l \in NextLine(isrNV) :
          pic_registerNonVectoredIrq(l, IrqIsr(l), IrqCtx(l), BulkPrio(l))
    /\ UNCHANGED <<regOrder, staleOps, copyVars, stepVars>>
    /\ log' = <<>>

IrqRegisterVect ==
    /\ irq_vector_mode # 0
    /\ \E l \in NextLine(irqVect) : pic_registerVectorIrq(l, IrqIsr(l), BulkPrio(l))
    /\ UNCHANGED <<regOrder, staleOps, copyVars, stepVars>>
    /\ log' = <<>>

IrqEnableInterrupt ==
    /\ \E irq \in EnableArgs : pic_enableInterrupt(irq)
    /\ UNCHANGED <<regOrder, staleOps, copyVars, stepVars>>
    /\ log' = <<>>

IrqDisableInterrupt ==
    /\ \E irq \in EnableArgs : pic_disableInterrupt(irq)
    /\ UNCHANGED <<regOrder, staleOps, copyVars, stepVars>>
    /\ log' = <<>>

IrqDispatchNv ==
    /\ irq_vector_mode = 0
    /\ \E h \in StatusHistories : pic_IrqHandler(h, NULL)
    /\ UNCHANGED <<regOrder, staleOps, copyVars, stepVars>>

IrqDispatchVect ==
    /\ irq_vector_mode # 0
    /\ \E isrAddr \in VectAddrReads : pic_IrqHandler(<<{}, {}, 0>>, isrAddr)
    /\ UNCHANGED <<regOrder, staleOps, copyVars, stepVars>>

NextIrq ==
    \/ BootInit
    \/ BootSetMode
    \/ IrqRegisterNv
    \/ IrqRegisterVect
    \/ IrqEnableInterrupt
    \/ IrqDisableInterrupt
    \/ IrqDispatchNv
    \/ IrqDispatchVect

SpecIrq == Init /\ [][NextIrq]_vars

(***************************************************************************)
(* SpecMode: both registries in use at once.  The caller registers the     *)
(* first ModeLines lines in each registry, the non-vectored routines and   *)
(* the vectored ones being different functions, switches the mode to any   *)
(* value of ModeInputs (the mode is an int8_t) at any time, and interrupts *)
(* are dispatched in every state.                                          *)
(***************************************************************************)
ModeLines == 3

ModeInputs == {0, 1, -1, 127}

NvIsr(l) == "nv" \o ToString(l)

ModeSetMode ==
    /\ \E mode \in ModeInputs : pic_set_irq_vector_mode(mode)
    /\ UNCHANGED <<regOrder, staleOps, copyVars, stepVars>>
    /\ log' = <<>>

ModeRegisterNv ==
    /\ \E l \in NextLine(isrNV) \cap (0..(ModeLines - 1)) :
          pic_registerNonVectoredIrq(l, NvIsr(l), IrqCtx(l), BulkPrio(l))
    /\ UNCHANGED <<regOrder, staleOps, copyVars, stepVars>>
    /\ log' = <<>>

ModeRegisterVect ==
    /\ \E l \in NextLine(irqVect) \cap (0..(ModeLines - 1)) :
          pic_registerVectorIrq(l, IrqIsr(l), BulkPrio(l))
    /\ UNCHANGED <<regOrder, staleOps, copyVars, stepVars>>
    /\ log' = <<>>

ModeDispatch ==
    /\ \E h \in StatusHistories : \E isrAddr \in VectAddrReads : pic_IrqHandler(h, isrAddr)
    /\ UNCHANGED <<regOrder, staleOps, copyVars, stepVars>>

NextMode ==
    \/ BootInit
    \/ ModeSetMode
    \/ ModeRegisterNv
    \/ ModeRegisterVect
    \/ ModeDispatch

SpecMode == Init /\ [][NextMode]_vars

(***************************************************************************)
(* SpecStep: the functions statement by statement, one call at a time.     *)
(* The caller registers line 0 with a priority of StepPrios and the        *)
(* other lines in ascending order, unregisters line 0, makes calls with an *)
(* invalid line, clears the vectored registry, enables the line            *)
(* StepEnableLine, and interrupts are dispatched between the calls, from   *)
(* the empty table to the full one.  As in SpecIrq the registry in use is  *)
(* the one of the dispatch mode.                                           *)
(***************************************************************************)
StepEnableLine == 20

StepPrios == {BulkPriority - 1, 200}

StepRegArgs(tab) ==
    ({0} \X {BulkIsr} \X StepPrios)
        \cup {<<l, BulkIsr, BulkPrio(l)>> : l \in NextBulk(tab)}
        \cup {<<NR_INTERRUPTS, BulkIsr, BulkPriority>>}

StepLineArgs == {0, NR_INTERRUPTS}

StepHistories == {<<{}, Idx, MaxChangeAt>>, <<{1, 3}, {}, 1>>}

ModeReg == IF irq_vector_mode = 0 THEN "nv" ELSE "vect"

StepCallerFrame == UNCHANGED <<regOrder, staleOps, copyVars>>

(* entries pic_unregisterAllVectorIrqs does not reach *)
BeyondSlots == {i \in Idx : i >= NR_VECTORS /\ irqVect[i].irq >= 0}

(* One more call that changes the registry in use, see VectCall. *)
StepVectCall ==
    IF ModeReg = "vect" THEN VectCall ELSE UNCHANGED staleOps

StepInit ==
    /\ pc = "idle"
    /\ pic_init
    /\ log' = <<>>
    /\ staleOps' = 0
    /\ UNCHANGED <<stepVars, regOrder, copyVars>>

StepSetMode ==
    /\ pc = "idle"
    /\ TablesEmpty
    /\ \E mode \in {0, 1} : pic_set_irq_vector_mode(mode)
    /\ log' = <<>>
    /\ UNCHANGED stepVars
    /\ StepCallerFrame

StepEnableInterrupt ==
    /\ pc = "idle"
    /\ irq_vector_mode # 0
    /\ pic_enableInterrupt(StepEnableLine)
    /\ log' = <<>>
    /\ UNCHANGED stepVars
    /\ StepCallerFrame

StepRegister ==
    /\ \E a \in StepRegArgs(TabOf(ModeReg)) :
          register_enter(ModeReg, a[1], a[2], ParamOf(a[2]), a[3])
    /\ StepVectCall
    /\ UNCHANGED <<regOrder, copyVars>>

StepUnregister ==
    /\ \E irq \in StepLineArgs : unregister_enter(ModeReg, irq)
    /\ StepVectCall
    /\ UNCHANGED <<regOrder, copyVars>>

StepUnregisterAll ==
    /\ irq_vector_mode # 0
    /\ staleOps <= MaxStaleOps
    /\ unregisterAll_enter
    /\ staleOps' = IF staleOps > 0 THEN staleOps + 1
                   ELSE IF BeyondSlots # {} THEN 1 ELSE 0
    /\ UNCHANGED <<regOrder, copyVars>>

StepDispatch ==
    /\ \E h \in StepHistories : \E isrAddr \in VectAddrReads : IrqHandler_enter(h, isrAddr)
    /\ StepCallerFrame

StepContinue == StepRun /\ StepCallerFrame

NextStep ==
    \/ StepInit
    \/ StepSetMode
    \/ StepEnableInterrupt
    \/ StepRegister
    \/ StepUnregister
    \/ StepUnregisterAll
    \/ StepDispatch
    \/ StepContinue

SpecStep == Init /\ [][NextStep]_vars

(* The processor goes on executing the function it is in. *)
SpecStepLive == SpecStep /\ WF_vars(StepContinue)

(***************************************************************************)
(* SpecRace: interrupts arrive while the non-vectored registry is changed. *)
(* The caller registers and unregisters the first RaceLines lines, every   *)
(* line with its own routine, with a priority of RacePrios; before a call  *)
(* it may disable the IRQ mode of the processor and after it enable it     *)
(* again.  An interrupt is dispatched between any two steps whenever the   *)
(* IRQ mode is enabled; the handler runs to its end before the interrupted *)
(* function continues.                                                     *)
(***************************************************************************)
RaceLines == 2

RacePrios == {BulkPriority, BulkPriority + 1}

RaceHistories == {<<Idx, Idx, 1>>, <<{1}, Idx, 1>>}

RaceDisableIrq ==
    /\ pc = "idle"
    /\ ~cpsr_I
    /\ irq_disableIrqMode

RaceEnableIrq ==
    /\ pc = "idle"
    /\ cpsr_I
    /\ irq_enableIrqMode

RaceRegister ==
    /\ \E l \in 0..(RaceLines - 1) : \E p \in RacePrios :
          register_enter("nv", l, NvIsr(l), IrqCtx(l), p)
    /\ StepCallerFrame

RaceUnregister ==
    /\ \E l \in 0..(RaceLines - 1) : unregister_enter("nv", l)
    /\ StepCallerFrame

RaceContinue ==
    /\ pc \in {"reg_search", "reg_down", "reg_up", "reg_fill", "unreg_search", "unreg_shift"}
    /\ StepRun
    /\ StepCallerFrame

RaceInterrupt ==
    /\ ~cpsr_I
    /\ \E h \in RaceHistories : pic_IrqHandler(h, NULL)
    /\ UNCHANGED <<regOrder, staleOps, copyVars, stepVars>>

NextRace ==
    \/ RaceDisableIrq
    \/ RaceEnableIrq
    \/ RaceRegister
    \/ RaceUnregister
    \/ RaceContinue
    \/ RaceInterrupt

SpecRace == Init /\ [][NextRace]_vars

(***************************************************************************)
(* SpecShift: the enable bits of the vector slots while the vectored       *)
(* registry is changed.  The caller of SpecStep works in the vectored      *)
(* mode and between its calls enables and disables the lines of            *)
(* ShiftToggleLines: line 1, which a registration of line 0 with a higher  *)
(* priority moves down and its unregistration moves up, and line           *)
(* BulkStride, which the registrations of the later lines move down and    *)
(* out of the slots.                                                       *)
(***************************************************************************)
ShiftToggleLines == {1, BulkStride}

ShiftRegister ==
    /\ irq_vector_mode # 0
    /\ StepRegister

ShiftUnregister ==
    /\ irq_vector_mode # 0
    /\ StepUnregister

ShiftEnableVect ==
    /\ pc = "idle"
    /\ irq_vector_mode # 0
    /\ \E irq \in ShiftToggleLines : pic_enableVectorIrq(irq)
    /\ log' = <<>>
    /\ UNCHANGED stepVars
    /\ StepCallerFrame

ShiftDisableVect ==
    /\ pc = "idle"
    /\ irq_vector_mode # 0
    /\ \E irq \in ShiftToggleLines : pic_disableVectorIrq(irq)
    /\ log' = <<>>
    /\ UNCHANGED stepVars
    /\ StepCallerFrame

ShiftContinue ==
    /\ pc \in {"reg_search", "reg_down", "reg_up", "reg_fill", "unreg_search", "unreg_shift"}
    /\ StepRun
    /\ StepCallerFrame

NextShift ==
    \/ StepInit
    \/ StepSetMode
    \/ ShiftRegister
    \/ ShiftUnregister
    \/ ShiftEnableVect
    \/ ShiftDisableVect
    \/ ShiftContinue

SpecShift == Init /\ [][NextShift]_vars

(***************************************************************************)
(* SpecDefault: the default vector routine and the asserted line.  In the  *)
(* vectored mode the caller registers the lines in ascending order, every  *)
(* line with its own routine, and enables and disables the lines of        *)
(* DefaultEnableLines, which the table holds at indices of 16..31 once it  *)
(* is filled.  An interrupt of one enabled line (VICIRQSTATUS shows only   *)
(* enabled lines) is dispatched to the address in VICDEFVECTADDR, which    *)
(* the controller supplies when no vector slot serves the line; the        *)
(* dispatch is taken statement by statement, and loc.h holds the value of  *)
(* VICIRQSTATUS during it.                                                 *)
(***************************************************************************)
DefaultEnableLines == {19, 24, 25}

(* the asserted lines of a dispatch: one enabled line *)
DefaultHistories == {<<{l}, {l}, 1>> : l \in VICINTENABLE}

DefaultRegister ==
    /\ pc = "idle"
    /\ irq_vector_mode # 0
    /\ \E l \in NextLine(irqVect) : pic_registerVectorIrq(l, IrqIsr(l), BulkPrio(l))
    /\ log' = <<>>
    /\ UNCHANGED stepVars
    /\ StepCallerFrame

DefaultEnableInterrupt ==
    /\ pc = "idle"
    /\ irq_vector_mode # 0
    /\ \E irq \in DefaultEnableLines : pic_enableInterrupt(irq)
    /\ log' = <<>>
    /\ UNCHANGED stepVars
    /\ StepCallerFrame

DefaultDisableInterrupt ==
    /\ pc = "idle"
    /\ irq_vector_mode # 0
    /\ \E irq \in DefaultEnableLines : pic_disableInterrupt(irq)
    /\ log' = <<>>
    /\ UNCHANGED stepVars
    /\ StepCallerFrame

DefaultDispatch ==
    /\ irq_vector_mode # 0
    /\ \E h \in DefaultHistories : IrqHandler_enter(h, VICDEFVECTADDR)
    /\ StepCallerFrame

DefaultContinue ==
    /\ pc \in {"def_loop", "vect_ack"}
    /\ StepRun
    /\ StepCallerFrame

NextDefault ==
    \/ StepInit
    \/ StepSetMode
    \/ DefaultRegister
    \/ DefaultEnableInterrupt
    \/ DefaultDisableInterrupt
    \/ DefaultDispatch
    \/ DefaultContinue

SpecDefault == Init /\ [][NextDefault]_vars

(***************************************************************************)
(* SpecPrio: every priority a caller can pass (priority is a uint8_t).     *)
(* Line 0 is registered, and registered again, with any priority of        *)
(* 0..UINT8_MAX, next to the first PrioBulk bulk lines.                    *)
(***************************************************************************)
UINT8_MAX == 255

PrioBulk == 2

PrioArgs(tab) ==
    ({0} \X {BulkIsr} \X (0..UINT8_MAX)) \cup
        {<<l, BulkIsr, BulkPrio(l)>> : l \in {b \in NextBulk(tab) : b <= MaxFree + PrioBulk}}

PrioRegisterNv ==
    /\ irq_vector_mode = 0
    /\ \E a \in PrioArgs(isrNV) :
          pic_registerNonVectoredIrq(a[1], a[2], ParamOf(a[2]), a[3])
    /\ UNCHANGED <<regOrder, staleOps, copyVars, stepVars>>
    /\ log' = <<>>

PrioRegisterVect ==
    /\ irq_vector_mode # 0
    /\ \E a \in PrioArgs(irqVect) : pic_registerVectorIrq(a[1], a[2], a[3])
    /\ UNCHANGED <<regOrder, staleOps, copyVars, stepVars>>
    /\ log' = <<>>

NextPrio ==
    \/ BootSetMode
    \/ PrioRegisterNv
    \/ PrioRegisterVect

SpecPrio == Init /\ [][NextPrio]_vars

(***************************************************************************)
(* SpecCopy: the relocation at boot, before the interrupt controller is    *)
(* initialised.                                                            *)
(***************************************************************************)
(* The driver before pic_init: its static tables are zeroed, the controller *)
(* is in its reset state.                                                  *)
PicIdle ==
    /\ VICINTENABLE = {}
    /\ VICDEFVECTADDR = NULL
    /\ irqVect = [i \in Idx |-> VectRecord(0, NULL, 0)]
    /\ VICVECTCNTLn = [i \in Slots |-> 0]
    /\ VICVECTADDRn = [i \in Slots |-> NULL]
    /\ isrNV = [i \in Idx |-> NvRecord(0, NULL, NULL, 0)]
    /\ irq_vector_mode = 0
    /\ ret = 0
    /\ call = Call("copy_vectors", -1, NULL, NULL, 0, -1)
    /\ regOrder = <<>>
    /\ staleOps = 0
    /\ log = <<>>
    /\ BetweenCalls

InitBoot == PicIdle /\ InitCopy

BootCopyVectors == copy_vectors /\ UNCHANGED <<picVars, stepVars>>

BootCopyForward == copy_forward /\ UNCHANGED <<picVars, stepVars>>

BootCopyBackward == copy_backward /\ UNCHANGED <<picVars, stepVars>>

NextCopy ==
    \/ BootCopyVectors
    \/ BootCopyForward
    \/ BootCopyBackward

SpecCopy == InitBoot /\ [][NextCopy]_vars

(* The processor goes on executing copy_vectors. *)
SpecCopyLive == SpecCopy /\ WF_vars(NextCopy)

(***************************************************************************)
(* SpecInit: the driver from the moment the vectors are relocated, before  *)
(* the first pic_init.  The caller initialises the controller first; from  *)
(* then on it registers, unregisters and initialises again at any time.    *)
(***************************************************************************)
InitIdle == PicIdle /\ Relocated

Initialised == call.op # "copy_vectors"

NextInit ==
    \/ BootInit
    \/ Initialised /\ BootSetMode
    \/ Initialised /\ BootRegisterNv
    \/ Initialised /\ BootUnregisterNv
    \/ Initialised /\ BootRegisterVect
    \/ Initialised /\ BootUnregisterVect

SpecInit == InitIdle /\ [][NextInit]_vars

(***************************************************************************)
(* Properties of the registries.                                           *)
(***************************************************************************)
OccupiedIdx(tab) == {i \in Idx : tab[i].irq >= 0}

RegisterOps == {"pic_registerNonVectoredIrq", "pic_registerVectorIrq"}

UnregisterOps == {"pic_unregisterNonVectoredIrq", "pic_unregisterVectorIrq"}

(* C1: after pic_init and any sequence of pic_registerVectorIrq and           *)
(* pic_unregisterVectorIrq calls, every hardware slot k of 0..15 mirrors      *)
(* vectored table entry k: a valid line L gives VICVECTCNTLn[k] = L | 0x20    *)
(* and VICVECTADDRn[k] = the entry's handler; an empty entry gives            *)
(* VICVECTCNTLn[k] = 0 and VICVECTADDRn[k] = the dummy handler.               *)
C1_HardwareMirrorsTable ==
    \A k \in 0..15 :
        IF irqVect[k].irq >= 0
        THEN /\ VICVECTCNTLn[k] = irqVect[k].irq + 32
             /\ VICVECTADDRn[k] = irqVect[k].isr
        ELSE /\ VICVECTCNTLn[k] = 0
             /\ VICVECTADDRn[k] = irq_dummyISR

(* A registration put its entry into a hardware slot of a table of more than  *)
(* 16 lines, so the shift crossed the boundary between slots and the rest.    *)
C1_Witness ==
    /\ call.op = "pic_registerVectorIrq"
    /\ ret \in 0..15
    /\ irqVect[ret].irq = call.irq
    /\ Cardinality(OccupiedIdx(irqVect)) > 16

(* An unregistration removed an entry from a hardware slot of such a table.   *)
C1_WitnessUnregister ==
    /\ call.op = "pic_unregisterVectorIrq"
    /\ call.pos \in 0..15
    /\ Cardinality(OccupiedIdx(irqVect)) >= 16

(* C2: after pic_init and any sequence of register and unregister calls, the  *)
(* occupied entries of each table are in non-increasing order of stored       *)
(* priority from index 0 upward.                                              *)
SortedByPriority(tab) ==
    \A i, j \in OccupiedIdx(tab) : i < j => tab[i].priority >= tab[j].priority

C2_TablesSorted == SortedByPriority(isrNV) /\ SortedByPriority(irqVect)

(* A registration placed its entry between an entry of at least its priority  *)
(* and an entry of lower priority.                                            *)
C2_Witness ==
    /\ call.op = "pic_registerNonVectoredIrq"
    /\ ret \in 1..30
    /\ isrNV[ret].irq = call.irq
    /\ isrNV[ret - 1].priority >= isrNV[ret].priority
    /\ isrNV[ret + 1].irq >= 0
    /\ isrNV[ret].priority > isrNV[ret + 1].priority

(* C3: in every state reachable by public operations, each interrupt line     *)
(* appears in at most one entry of the non-vectored table and in at most one  *)
(* entry of the vectored table.                                               *)
LinesUnique(tab) ==
    \A i, j \in OccupiedIdx(tab) : tab[i].irq = tab[j].irq => i = j

C3_LinesUnique == LinesUnique(isrNV) /\ LinesUnique(irqVect)

(* C4: in every state reachable by public operations both tables are          *)
(* dense-then-empty: no empty entry has a lower index than an occupied entry. *)
Dense(tab) ==
    \A i, j \in Idx : (i < j /\ tab[j].irq >= 0) => tab[i].irq >= 0

C4_TablesDense == Dense(isrNV) /\ Dense(irqVect)

(* C9: after pic_unregisterAllVectorIrqs all 32 entries of the vectored table *)
(* are empty (sentinel line, sentinel priority, dummy handler) and all 16     *)
(* hardware slots are disabled with the dummy handler address.                *)
C9_UnregisterAllClearsAll ==
    call.op = "pic_unregisterAllVectorIrqs" =>
        /\ \A i \in 0..31 :
              /\ irqVect[i].irq = -1
              /\ irqVect[i].priority = -1
              /\ irqVect[i].isr = irq_dummyISR
        /\ \A k \in 0..15 :
              /\ VICVECTCNTLn[k] = 0
              /\ VICVECTADDRn[k] = irq_dummyISR

(* C5: a register call with a line in 0..31 and a non-null handler does not   *)
(* fail, for any priority and in any table state: it returns an index r in    *)
(* 0..31, and entry r of the table then holds that line with the given        *)
(* handler (and parameter) and the priority masked to 7 bits.                 *)
C5_RegisterSucceeds ==
    /\ (call.op = "pic_registerNonVectoredIrq" /\ call.irq \in 0..31 /\ call.addr # NULL) =>
          /\ ret \in 0..31
          /\ isrNV[ret] = [irq |-> call.irq, isr |-> call.addr, param |-> call.param,
                           priority |-> call.priority % 128]
    /\ (call.op = "pic_registerVectorIrq" /\ call.irq \in 0..31 /\ call.addr # NULL) =>
          /\ ret \in 0..31
          /\ irqVect[ret] = [irq |-> call.irq, isr |-> call.addr,
                             priority |-> call.priority % 128]

(* C6: a register call (either registry) with a line >= 32 or a null handler  *)
(* returns a negative value and leaves both tables and every hardware         *)
(* vector-address and vector-control register unchanged.                      *)
C6_BadRegisterChangesNothing ==
    [][(call'.op \in RegisterOps /\ (call'.irq >= 32 \/ call'.addr = NULL)) =>
          /\ ret' < 0
          /\ isrNV' = isrNV
          /\ irqVect' = irqVect
          /\ VICVECTCNTLn' = VICVECTCNTLn
          /\ VICVECTADDRn' = VICVECTADDRn]_vars

(* A register call with a bad argument returned, on a table holding lines in  *)
(* hardware slots and beyond them.                                            *)
C6_Witness ==
    /\ call.op = "pic_registerVectorIrq"
    /\ (call.irq >= 32 \/ call.addr = NULL)
    /\ ret < 0
    /\ Cardinality(OccupiedIdx(irqVect)) > 16

(* C7: registering a line that is already in the table leaves exactly one     *)
(* entry for that line, carrying the new handler (and parameter) and the new  *)
(* masked priority, and leaves the number of occupied entries unchanged.      *)
ReRegistered(tab, tabAfter, line, entry) ==
    /\ Cardinality({i \in Idx : tabAfter[i].irq = line}) = 1
    /\ \A i \in Idx : tabAfter[i].irq = line => tabAfter[i] = entry
    /\ Cardinality(OccupiedIdx(tabAfter)) = Cardinality(OccupiedIdx(tab))

C7_ReRegisterOverwrites ==
    [][/\ (/\ call'.op = "pic_registerNonVectoredIrq"
           /\ call'.addr # NULL
           /\ \E i \in Idx : isrNV[i].irq = call'.irq) =>
             ReRegistered(isrNV, isrNV', call'.irq,
                          [irq |-> call'.irq, isr |-> call'.addr, param |-> call'.param,
                           priority |-> call'.priority % 128])
       /\ (/\ call'.op = "pic_registerVectorIrq"
           /\ call'.addr # NULL
           /\ \E i \in Idx : irqVect[i].irq = call'.irq) =>
             ReRegistered(irqVect, irqVect', call'.irq,
                          [irq |-> call'.irq, isr |-> call'.addr,
                           priority |-> call'.priority % 128])]_vars

(* C8: unregistering a registered line L at index p removes exactly that      *)
(* entry: the occupied count drops by one, every entry formerly at an index   *)
(* i > p is afterwards at i-1 with unchanged content, the entries below p are *)
(* unchanged, index 31 becomes empty, and a dense-then-empty table stays so.  *)
FirstEntryOf(tab, line) ==
    CHOOSE p \in Idx : tab[p].irq = line /\ \A q \in 0..(p - 1) : tab[q].irq # line

Removed(tab, tabAfter, line) ==
    LET p == FirstEntryOf(tab, line)
    IN  /\ Cardinality(OccupiedIdx(tabAfter)) = Cardinality(OccupiedIdx(tab)) - 1
        /\ \A i \in Idx : i > p => tabAfter[i - 1] = tab[i]
        /\ \A i \in Idx : i < p => tabAfter[i] = tab[i]
        /\ tabAfter[31].irq = -1
        /\ Dense(tab) => Dense(tabAfter)

C8_UnregisterRemovesOne ==
    [][/\ (/\ call'.op = "pic_unregisterNonVectoredIrq"
           /\ \E i \in Idx : isrNV[i].irq = call'.irq) =>
             Removed(isrNV, isrNV', call'.irq)
       /\ (/\ call'.op = "pic_unregisterVectorIrq"
           /\ \E i \in Idx : irqVect[i].irq = call'.irq) =>
             Removed(irqVect, irqVect', call'.irq)]_vars

(* An unregistration found its line below other entries of a table of more    *)
(* than 16 lines and removed it.                                              *)
C8_Witness ==
    /\ call.op = "pic_unregisterNonVectoredIrq"
    /\ call.pos \in 0..15
    /\ isrNV[call.pos].irq >= 0
    /\ call.irq \notin Occupied(isrNV)
    /\ Cardinality(OccupiedIdx(isrNV)) > 16

(* C10: after pic_init and registrations of distinct lines, of two entries    *)
(* with equal stored priority the one registered earlier sits at the lower    *)
(* index.                                                                     *)
(* at[n] is the index of the entry of the n-th registered line. *)
StableOrder(tab) ==
    OccupiedIdx(tab) # {} =>
        \A at \in {[n \in DOMAIN regOrder |-> CHOOSE a \in Idx : tab[a].irq = regOrder[n]]} :
            \A n \in DOMAIN regOrder : \A m \in 1..(n - 1) :
                tab[at[m]].priority = tab[at[n]].priority => at[m] < at[n]

C10_EqualPriorityKeepsOrder == StableOrder(isrNV) /\ StableOrder(irqVect)

(* A line was registered after a line of a larger number and of the same      *)
(* priority, in a table of more than 16 lines.                                *)
C10_Witness ==
    /\ call.op = "pic_registerVectorIrq"
    /\ Len(regOrder) > 16
    /\ regOrder[Len(regOrder)] = call.irq
    /\ \E m \in DOMAIN regOrder : \E a \in Idx :
          /\ regOrder[m] > call.irq
          /\ irqVect[a].irq = regOrder[m]
          /\ irqVect[a].priority = irqVect[ret].priority

(***************************************************************************)
(* Properties of the dispatch, stated on the log of the last dispatch.     *)
(***************************************************************************)
NvDispatched == call.op = "_pic_IrqHandler" /\ irq_vector_mode = 0

VectDispatched == call.op = "_pic_IrqHandler" /\ irq_vector_mode # 0

LogCalls == SelectSeq(log, LAMBDA e : e[1] = "call")

(* the calls of routines other than the two dummy routines *)
LogUserCalls ==
    SelectSeq(log, LAMBDA e : e[1] = "call" /\ e[2] \notin {irq_dummyNvISR, irq_dummyISR})

LogStatusReads == SelectSeq(log, LAMBDA e : e[1] = "read" /\ e[2] = "VICIRQSTATUS")

(* the entries before the first empty entry *)
Leading(tab) == {i \in Idx : \A j \in 0..i : tab[j].irq >= 0}

(* C11: in a non-vectored dispatch over a dense table during which the     *)
(* status register shows one value, the routines of the table that are run *)
(* are exactly those of the occupied entries whose line is set in that     *)
(* value, each run once with the entry's context, in ascending order of    *)
(* table index; the entries from the first empty one on are not examined   *)
(* (the status is read once per entry before it).  The dummy routine is    *)
(* the subject of C12 and C28.                                             *)
C11_NvDispatchRunsSetLines ==
    (NvDispatched /\ Dense(isrNV)) =>
        \A status \in StatusInputs :
            (\A n \in DOMAIN LogStatusReads : LogStatusReads[n][3] = status) =>
                \A hits \in {{i \in OccupiedIdx(isrNV) : isrNV[i].irq \in status}} :
                    /\ Len(LogUserCalls) = Cardinality(hits)
                    /\ \A i \in hits :
                          \A e \in {LogUserCalls[1 + Cardinality({j \in hits : j < i})]} :
                              e[2] = isrNV[i].isr /\ e[3] = isrNV[i].param
                    /\ Len(LogStatusReads) = Cardinality(Leading(isrNV))

(* A dispatch over a partly filled table ran the routines of two entries   *)
(* and passed over an occupied entry between them.                         *)
C11_Witness ==
    /\ NvDispatched
    /\ \E status \in StatusInputs : \A n \in DOMAIN LogStatusReads : LogStatusReads[n][3] = status
    /\ Len(LogUserCalls) >= 2
    /\ Cardinality(OccupiedIdx(isrNV)) \in 4..31
    /\ \E i, j, k \in OccupiedIdx(isrNV) :
          /\ i < j /\ j < k
          /\ LogUserCalls[1][3] = isrNV[i].param
          /\ LogUserCalls[2][3] = isrNV[k].param

(* C12: a non-vectored dispatch that runs no routine of the table runs the *)
(* dummy routine.                                                          *)
C12_NoMatchRunsDummy ==
    (NvDispatched /\ Len(LogUserCalls) = 0) =>
        \E n \in DOMAIN log : log[n][1] = "call" /\ log[n][2] = irq_dummyNvISR

(* C13: a vectored dispatch reads VICVECTADDR once, as its first access,   *)
(* runs the routine at the address the read returned, once, and after that *)
(* routine has returned writes 0xFFFFFFFF to VICVECTADDR, once, as its     *)
(* last access.                                                            *)
Depth(n) ==
    Cardinality({m \in 1..(n - 1) : log[m][1] = "call"})
        - Cardinality({m \in 1..(n - 1) : log[m][1] = "return"})

C13_VectoredAcknowledge ==
    VectDispatched =>
        /\ Len(log) >= 4
        /\ log[1][1] = "read" /\ log[1][2] = "VICVECTADDR"
        /\ log[2][1] = "call" /\ log[2][2] = log[1][3]
        /\ log[Len(log) - 1][1] = "return" /\ log[Len(log) - 1][2] = log[1][3]
        /\ log[Len(log)][1] = "write" /\ log[Len(log)][2] = "VICVECTADDR"
        /\ log[Len(log)][3] = "0xFFFFFFFF"
        /\ Cardinality({n \in DOMAIN log : log[n][1] = "read"}) = 1
        /\ Cardinality({n \in DOMAIN log : log[n][1] = "write"}) = 1
        /\ Cardinality({n \in DOMAIN log : log[n][1] = "call" /\ Depth(n) = 0}) = 1
        /\ Depth(Len(log)) = 0

(* A vectored dispatch ran the routine of a vector slot. *)
C13_Witness ==
    /\ VectDispatched
    /\ \E k \in Slots : irqVect[k].irq >= 0 /\ log[1][3] = irqVect[k].isr
    /\ Cardinality(OccupiedIdx(irqVect)) > 16

(* C14: a call of the default vector routine runs exactly one routine: the *)
(* routine of the entry of lowest index in 16..31 that holds a valid line  *)
(* whose bit is set in VICINTENABLE, or the dummy routine if there is none. *)
DefaultHits ==
    {c \in 16..31 : irqVect[c].irq \in 0..31 /\ irqVect[c].irq \in VICINTENABLE}

C14_DefaultRunsFirstEnabled ==
    (VectDispatched /\ log[2][2] = defaultVectorIsr) =>
        /\ Len(LogCalls) = 2
        /\ log[3][1] = "call"
        /\ log[4][1] = "return"
        /\ log[5][1] = "return" /\ log[5][2] = defaultVectorIsr
        /\ IF DefaultHits = {}
           THEN log[3][2] = irq_dummyISR
           ELSE \E c \in DefaultHits :
                   /\ \A d \in DefaultHits : c <= d
                   /\ log[3][2] = irqVect[c].isr

(* The default vector routine passed over an entry of 16..31 whose line is *)
(* not enabled and ran the routine of the first of two enabled ones.       *)
C14_Witness ==
    /\ VectDispatched
    /\ log[2][2] = defaultVectorIsr
    /\ Cardinality(DefaultHits) >= 2
    /\ 16 \notin DefaultHits
    /\ \E c \in DefaultHits : log[3][2] = irqVect[c].isr

(* C15 as stated: a non-vectored dispatch reads the status register once,  *)
(* so the routines it runs are those of the occupied entries whose line is *)
(* set in the value sampled at its start.                                  *)
C15_StatusSampledAtStart ==
    (NvDispatched /\ Len(LogStatusReads) > 0) =>
        \A hits \in {{i \in OccupiedIdx(isrNV) : isrNV[i].irq \in LogStatusReads[1][3]}} :
            /\ Len(LogUserCalls) = Cardinality(hits)
            /\ \A i \in hits :
                  LogUserCalls[1 + Cardinality({j \in hits : j < i})][3] = isrNV[i].param

(* C15 amended: a non-vectored dispatch reads the status register once for *)
(* every occupied entry it examines, and the routine of an entry is run if *)
(* and only if the entry's line is set in the value read for that entry.   *)
C15_StatusReadPerEntry ==
    NvDispatched =>
        /\ Len(LogStatusReads) = Cardinality(Leading(isrNV))
        /\ \A p \in DOMAIN log :
              (log[p][1] = "read" /\ log[p][2] = "VICIRQSTATUS") =>
                  \A i \in {Cardinality({q \in 1..(p - 1) : log[q][1] = "read"})} :
                      (isrNV[i].irq \in log[p][3]) <=>
                          /\ p < Len(log)
                          /\ log[p + 1][1] = "call"
                          /\ log[p + 1][2] = isrNV[i].isr
                          /\ log[p + 1][3] = isrNV[i].param
        /\ Len(LogUserCalls) <= Len(LogStatusReads)

(* The status changed during a dispatch: the routine of a line that was set *)
(* in the first value read was not run, the line being clear when its entry *)
(* was examined.                                                            *)
C15_Witness ==
    /\ NvDispatched
    /\ Len(LogStatusReads) >= 3
    /\ Len(LogUserCalls) >= 1
    /\ \E i \in OccupiedIdx(isrNV) :
          /\ isrNV[i].irq \in LogStatusReads[1][3]
          /\ isrNV[i].irq \notin LogStatusReads[i + 1][3]
          /\ \A n \in DOMAIN LogUserCalls : LogUserCalls[n][3] # isrNV[i].param

(* C16: after pic_init and the registration of more than 16 distinct lines *)
(* in the vectored registry, a line with fewer than 16 lines ranked before *)
(* it (higher stored priority, or the same priority and registered         *)
(* earlier) is in a hardware slot, enabled and with its routine's address; *)
(* every other registered line is at a table index in 16..31 and in no     *)
(* control register.                                                       *)
(* at[n] is the index of the entry of the n-th registered line. *)
C16_SlotsHoldTopSixteen ==
    (irq_vector_mode # 0 /\ Len(regOrder) > 16) =>
        \A at \in {[n \in DOMAIN regOrder |-> CHOOSE a \in Idx : irqVect[a].irq = regOrder[n]]} :
            \A n \in DOMAIN regOrder :
                IF Cardinality({m \in DOMAIN regOrder :
                        \/ irqVect[at[m]].priority > irqVect[at[n]].priority
                        \/ irqVect[at[m]].priority = irqVect[at[n]].priority /\ m < n}) < 16
                THEN /\ at[n] \in 0..15
                     /\ VICVECTCNTLn[at[n]] = regOrder[n] + 32
                     /\ VICVECTADDRn[at[n]] = irqVect[at[n]].isr
                ELSE /\ at[n] \in 16..31
                     /\ \A k \in 0..15 : VICVECTCNTLn[k] % 32 # regOrder[n] \/ VICVECTCNTLn[k] = 0

(* One of the first 16 lines registered has been pushed out of the hardware *)
(* slots by lines of higher priority registered after it.                   *)
C16_Witness ==
    /\ irq_vector_mode # 0
    /\ Len(regOrder) > 16
    /\ \E n \in 1..16 : \E a \in 16..31 :
          /\ irqVect[a].irq = regOrder[n]
          /\ \A k \in 0..15 : VICVECTCNTLn[k] # regOrder[n] + 32

(* C17: pic_enableVectorIrq(L) and pic_disableVectorIrq(L) leave both       *)
(* tables and every vector address register unchanged, and of the vector    *)
(* control registers they change only bit 5 of a slot whose table entry     *)
(* holds L: enable sets it in the first such slot and returns that slot's   *)
(* index, disable clears it in every such slot.                             *)
C17_ToggleChangesEnableBitOnly ==
    [][(call'.op \in {"pic_enableVectorIrq", "pic_disableVectorIrq"}) =>
          /\ isrNV' = isrNV
          /\ irqVect' = irqVect
          /\ VICVECTADDRn' = VICVECTADDRn
          /\ \A k \in 0..15 :
                /\ VICVECTCNTLn'[k] % 32 = VICVECTCNTLn[k] % 32
                /\ VICVECTCNTLn'[k] \div 64 = VICVECTCNTLn[k] \div 64
                /\ irqVect[k].irq # call'.irq => VICVECTCNTLn'[k] = VICVECTCNTLn[k]
                /\ (call'.op = "pic_disableVectorIrq" /\ irqVect[k].irq = call'.irq) =>
                      (VICVECTCNTLn'[k] \div 32) % 2 = 0
                /\ (/\ call'.op = "pic_enableVectorIrq"
                    /\ irqVect[k].irq = call'.irq
                    /\ \A j \in 0..(k - 1) : irqVect[j].irq # call'.irq) =>
                      /\ (VICVECTCNTLn'[k] \div 32) % 2 = 1
                      /\ ret' = k]_vars

(* pic_disableVectorIrq cleared the enable bit of the slot of a line other   *)
(* than 0, in a table of several lines.                                      *)
C17_Witness ==
    /\ call.op = "pic_disableVectorIrq"
    /\ call.irq > 0
    /\ \E k \in 1..15 : irqVect[k].irq = call.irq /\ VICVECTCNTLn[k] = call.irq

(* C18: unregistering a line that its table does not hold, and enabling or  *)
(* disabling a line that no entry 0..15 of the vectored table holds (lines  *)
(* >= 32 and lines registered only at an index >= 16 included), leave both  *)
(* tables and all vector control and address registers unchanged;           *)
(* pic_enableVectorIrq then returns -1.                                     *)
C18_NotFoundChangesNothing ==
    [][(\/ /\ call'.op = "pic_unregisterNonVectoredIrq"
           /\ \A i \in 0..31 : isrNV[i].irq # call'.irq
        \/ /\ call'.op = "pic_unregisterVectorIrq"
           /\ \A i \in 0..31 : irqVect[i].irq # call'.irq
        \/ /\ call'.op \in {"pic_enableVectorIrq", "pic_disableVectorIrq"}
           /\ \A k \in 0..15 : irqVect[k].irq # call'.irq) =>
          /\ isrNV' = isrNV
          /\ irqVect' = irqVect
          /\ VICVECTCNTLn' = VICVECTCNTLn
          /\ VICVECTADDRn' = VICVECTADDRn
          /\ call'.op = "pic_enableVectorIrq" => ret' = -1]_vars

(* pic_enableVectorIrq returned -1 for a line registered at an index >= 16. *)
C18_Witness ==
    /\ call.op = "pic_enableVectorIrq"
    /\ ret = -1
    /\ \E a \in 16..31 : irqVect[a].irq = call.irq

(* An unregistration of a line that the table does not hold returned, the    *)
(* table holding other lines.                                                *)
C18_WitnessUnregister ==
    /\ call.op = "pic_unregisterNonVectoredIrq"
    /\ call.irq \in 0..31
    /\ call.irq \notin Occupied(isrNV)
    /\ call.pos = 32
    /\ Occupied(isrNV) # {}

C19_WitnessWrapsBelow ==
    /\ call.op = "pic_registerNonVectoredIrq"
    /\ call.priority = 130
    /\ ret > 0
    /\ isrNV[ret].priority = 2
    /\ isrNV[ret - 1].priority = 3

(***************************************************************************)
(* Properties of the relocation.                                           *)
(***************************************************************************)
(* C20: for every placement of the source block [start, end) and of the    *)
(* destination in which the destination is not the start of the source     *)
(* (it is before the source, at or after its end, or strictly inside it)   *)
(* and the block is not longer than the words between the destination and  *)
(* the top of the address space, after copy_vectors the destination word   *)
(* dst+i equals the source word start+i as it was before the copy, for     *)
(* every i in 0..len-1.                                                    *)
C20_CopyEqualsSnapshot ==
    (/\ copy_pc = "done"
     /\ dst_start # src_begin
     /\ block_len <= AddrWords - 1 - dst_start) =>
        \A i \in 0..(block_len - 1) : mem[dst_start + i] = mem0[src_begin + i]

(* copy_vectors has been entered and has passed its two tests. *)
CopyEntered == copy_pc # "entry"

(* C21: copy_vectors writes no word of memory when the start of the source *)
(* equals the destination, or when the block has more words than there are *)
(* from the destination to the top of the address space (the copy would    *)
(* exceed the addressable range).                                          *)
C21_NoOpWritesNothing ==
    (/\ CopyEntered
     /\ \/ dst_start = src_begin
        \/ block_len > AddrWords - dst_start) =>
        mem = mem0 /\ copied = 0

(* The call returned after the first test: the block is not empty and      *)
(* starts at the destination.                                              *)
C21_Witness ==
    /\ copy_pc = "done"
    /\ dst_start = src_begin
    /\ block_len > 0
    /\ mem = mem0

(* The call returned with a block that would have run over the top. *)
C21_WitnessOverflow ==
    /\ copy_pc = "done"
    /\ dst_start # src_begin
    /\ dst_start >= src_end
    /\ block_len > AddrWords - dst_start
    /\ mem = mem0

(***************************************************************************)
(* Properties of the initialisation and of the dispatch mode.              *)
(***************************************************************************)
(* C22: pic_init, called in any state, leaves all 32 entries of both tables *)
(* empty (line -1, priority -1, the dummy routine), all 16 slots with a     *)
(* control register of 0 and the address of the dummy routine, the default  *)
(* vector address set to the default vector routine, and the dispatch mode  *)
(* non-vectored.                                                            *)
C22_InitResetsEverything ==
    call.op = "pic_init" =>
        /\ \A i \in Idx :
              /\ isrNV[i].irq = -1 /\ isrNV[i].priority = -1
              /\ isrNV[i].isr = irq_dummyNvISR
              /\ irqVect[i].irq = -1 /\ irqVect[i].priority = -1
              /\ irqVect[i].isr = irq_dummyISR
        /\ \A k \in Slots : VICVECTCNTLn[k] = 0 /\ VICVECTADDRn[k] = irq_dummyISR
        /\ VICDEFVECTADDR = defaultVectorIsr
        /\ irq_vector_mode = 0

(* pic_init has run: before the first call the tables are zeroed and the   *)
(* last call is not pic_init.                                              *)
C22_Witness ==
    /\ call.op = "pic_init"
    /\ isrNV[NR_INTERRUPTS - 1].irq = -1
    /\ irqVect[NR_INTERRUPTS - 1].irq = -1

(* the routines the non-vectored table holds, its dummy routine included *)
NvTableIsrs == {isrNV[i].isr : i \in Idx}

(* the accesses to VICVECTADDR of the last dispatch *)
LogVectAddr == SelectSeq(log, LAMBDA e : e[1] \in {"read", "write"} /\ e[2] = "VICVECTADDR")

(* C23: a dispatch with mode 0 runs routines of the non-vectored table only *)
(* and neither reads nor writes VICVECTADDR; a dispatch with any other mode *)
(* reads VICVECTADDR, runs the routine at the address read, writes          *)
(* VICVECTADDR, and runs no routine held by the non-vectored table; and the *)
(* mode changes only in _pic_set_irq_vector_mode and pic_init.              *)
C23_ModeSelectsRegistry ==
    [][/\ (call'.op = "_pic_IrqHandler" /\ irq_vector_mode = 0) =>
            /\ Len(LogVectAddr') = 0
            /\ \A n \in DOMAIN log' :
                  log'[n][1] = "call" =>
                      log'[n][2] \in NvTableIsrs \cup {irq_dummyNvISR, irq_dummyISR}
       /\ (call'.op = "_pic_IrqHandler" /\ irq_vector_mode # 0) =>
            /\ Len(log') >= 4
            /\ log'[1] = Read("VICVECTADDR", log'[2][2])
            /\ log'[2][1] = "call"
            /\ log'[Len(log')][1] = "write" /\ log'[Len(log')][2] = "VICVECTADDR"
            /\ \A n \in DOMAIN log' :
                  /\ log'[n][1] = "call" => log'[n][2] \notin NvTableIsrs
                  /\ log'[n][1] = "read" => log'[n][2] # "VICIRQSTATUS"
       /\ irq_vector_mode' # irq_vector_mode =>
            call'.op \in {"_pic_set_irq_vector_mode", "pic_init"}
      ]_vars

(* A vectored dispatch with a negative mode, while the non-vectored table  *)
(* holds routines.                                                         *)
C23_Witness ==
    /\ call.op = "_pic_IrqHandler"
    /\ irq_vector_mode < 0
    /\ Cardinality(OccupiedIdx(isrNV)) = ModeLines
    /\ Len(LogVectAddr) = 2

(* A non-vectored dispatch that ran a routine while vector slots are in use. *)
C23_WitnessNv ==
    /\ call.op = "_pic_IrqHandler"
    /\ irq_vector_mode = 0
    /\ Cardinality(OccupiedIdx(irqVect)) = ModeLines
    /\ Len(LogUserCalls) > 0

(***************************************************************************)
(* Properties of the functions statement by statement.                     *)
(***************************************************************************)
(* C24: a routine that is called returns, so every call of a register      *)
(* function, an unregister function, pic_unregisterAllVectorIrqs,          *)
(* _pic_IrqHandler in either mode and the default vector routine returns   *)
(* in every reachable state, and it makes at most 2 * 32 loop iterations:  *)
(* no table entry is examined more than twice.                             *)
C24_CallsTerminate ==
    /\ [](steps <= 2 * NR_INTERRUPTS)
    /\ (pc # "idle") ~> (pc = "idle")

(* A register call that has searched a table of 31 entries and shifted all *)
(* of them.                                                                *)
C24_Witness ==
    /\ pc = "reg_fill"
    /\ steps = 2 * NR_INTERRUPTS - 1

(* A non-vectored dispatch that has scanned a full table. *)
C24_WitnessDispatch ==
    /\ pc = "nv_loop"
    /\ loc.i = NR_INTERRUPTS
    /\ \A i \in Idx : isrNV[i].irq >= 0

(* the interrupt handler has just run to its end *)
InterruptTaken == call'.op = "_pic_IrqHandler" /\ UNCHANGED <<stepVars, isrNV>>

(* a dispatch that ran some routine more than once *)
RanTwice(lg) ==
    \E m, n \in DOMAIN lg : m < n /\ lg[m][1] = "call" /\ lg[n][1] = "call" /\ lg[m][2] = lg[n][2]

(* C25: the register and unregister functions are not atomic with respect   *)
(* to the dispatch.  No interrupt is dispatched inside a call that was made *)
(* with the IRQ mode disabled, and a dispatch between calls sees a table    *)
(* in which no line is in two entries and the priorities are in order, and  *)
(* runs no routine twice; a dispatch between two entry writes of a call can *)
(* see one line in two entries and run its routine twice (C25_Witness).     *)
C25_ExcludedDispatchSeesRegistry ==
    [][InterruptTaken =>
          /\ pc # "idle" => ~cpsr_I
          /\ pc = "idle" =>
                /\ LinesUnique(isrNV)
                /\ SortedByPriority(isrNV)
                /\ ~RanTwice(log')
      ]_vars

(* An interrupt between two entry writes of a call: the table holds a line  *)
(* in two entries and the dispatch ran its routine twice.                   *)
C25_Witness ==
    /\ call.op = "_pic_IrqHandler"
    /\ pc \in {"reg_down", "reg_up", "reg_fill", "unreg_shift"}
    /\ ~LinesUnique(isrNV)
    /\ RanTwice(log)

(***************************************************************************)
(* Properties of the entries.                                              *)
(***************************************************************************)
SentinelsAgree(tab, dummy) ==
    \A i \in Idx :
        /\ tab[i].irq = -1 <=> tab[i].priority = -1
        /\ tab[i].irq = -1 <=> tab[i].isr = dummy
        /\ tab[i].isr # NULL

(* C26: in every state reachable from pic_init, an entry of either table   *)
(* has the line -1 if and only if it has the priority -1, and if and only  *)
(* if its routine is the dummy routine pic_init stores in that table; no   *)
(* entry holds a NULL routine.                                             *)
C26_SentinelsAgree ==
    /\ SentinelsAgree(isrNV, irq_dummyNvISR)
    /\ SentinelsAgree(irqVect, irq_dummyISR)

(* After an unregistration the non-vectored table holds registered entries *)
(* next to empty ones.                                                     *)
C26_Witness ==
    /\ call.op = "pic_unregisterNonVectoredIrq"
    /\ call.pos >= 0
    /\ OccupiedIdx(isrNV) # {} /\ OccupiedIdx(isrNV) # Idx

(* The same in the vectored table. *)
C26_WitnessVect ==
    /\ call.op = "pic_unregisterVectorIrq"
    /\ call.pos >= 0
    /\ OccupiedIdx(irqVect) # {} /\ OccupiedIdx(irqVect) # Idx

(***************************************************************************)
(* The documented treatment of a priority above 127.                       *)
(***************************************************************************)
(* C27: a successful register call whose requested priority exceeds 127    *)
(* stores the priority 127 (the value is clamped to the maximum), so the   *)
(* entry is not placed below an entry of a smaller requested priority.     *)
C27_PriorityClamped ==
    /\ (call.op = "pic_registerNonVectoredIrq" /\ ret >= 0
            /\ call.priority > 127) =>
          /\ isrNV[ret].priority = 127
          /\ \A i \in 0..(ret - 1) : isrNV[i].priority >= 127
    /\ (call.op = "pic_registerVectorIrq" /\ ret >= 0
            /\ call.priority > 127) =>
          /\ irqVect[ret].priority = 127
          /\ \A i \in 0..(ret - 1) : irqVect[i].priority >= 127

(***************************************************************************)
(* The dummy routine after a dispatch that served a line.                  *)
(***************************************************************************)
(* C28: a non-vectored dispatch that ran at least one routine of the table *)
(* does not run the dummy routine, whatever the number of occupied entries *)
(* (0 to 32).                                                              *)
C28_ServedRunsNoDummy ==
    (NvDispatched /\ Len(LogUserCalls) >= 1) =>
        \A n \in DOMAIN log : ~(log[n][1] = "call" /\ log[n][2] = irq_dummyNvISR)

(***************************************************************************)
(* The enable bit of a slot whose line was disabled, across the shifts.    *)
(***************************************************************************)
(* the vectored registry as it was when the function was called *)
PreCall == IF pc = "idle" THEN Snapshot("vect") ELSE loc.t0

(* C29: when pic_registerVectorIrq or pic_unregisterVectorIrq returns from *)
(* a call for a line other than L, and at the call L's entry was in a slot *)
(* k of 0..15 whose control register had the enable bit clear (as          *)
(* pic_disableVectorIrq(L) leaves it), then L is still registered, and if  *)
(* its entry is now at another index within 0..15 the control register of  *)
(* that slot holds L with the enable bit set, while if its entry is still  *)
(* at k the control register of slot k still holds L with the bit clear.   *)
C29_ShiftReenablesSlot ==
    [][(/\ pc' = "idle"
        /\ call'.op \in {"pic_registerVectorIrq", "pic_unregisterVectorIrq"}) =>
          \A s \in {PreCall} : \A k \in Slots : \A L \in {s.t[k].irq} :
              (L >= 0 /\ L # call'.irq /\ s.c[k] = L) =>
                  \E k2 \in Idx :
                      /\ irqVect'[k2].irq = L
                      /\ (k2 # k /\ k2 < NR_VECTORS) =>
                            VICVECTCNTLn'[k2] = L + BM_VECT_ENABLE_BIT
                      /\ k2 = k => VICVECTCNTLn'[k] = L]_vars

(* pic_unregisterVectorIrq for another line is shifting the entries up: it *)
(* has copied the entry of a disabled line L from slot k+1 to slot k and   *)
(* written the control register of slot k with the enable bit set, and the *)
(* control register of slot k+1 still holds L with the bit clear.          *)
C29_Witness ==
    /\ pc = "unreg_shift"
    /\ \E k \in 0..(NR_VECTORS - 2) :
          /\ loc.i = k + 1
          /\ irqVect[k].irq > 0
          /\ irqVect[k].irq # loc.irq
          /\ irqVect[k + 1].irq = irqVect[k].irq
          /\ VICVECTCNTLn[k + 1] = irqVect[k].irq
          /\ VICVECTCNTLn[k] = irqVect[k].irq + BM_VECT_ENABLE_BIT

(* pic_registerVectorIrq returned from inserting another line below the    *)
(* entry of a disabled line, whose slot is still disabled.                 *)
C29_WitnessUnmoved ==
    /\ pc = "idle"
    /\ call.op = "pic_registerVectorIrq"
    /\ \E k \in Slots :
          /\ irqVect[k].irq > 0
          /\ irqVect[k].irq # call.irq
          /\ VICVECTCNTLn[k] = irqVect[k].irq
          /\ ret > k

(***************************************************************************)
(* The entries of the other lines across a call.                           *)
(***************************************************************************)
(* the indices of the entries of the lines other than 'line' *)
OthersIdx(tab, line) == {i \in Idx : tab[i].irq >= 0 /\ tab[i].irq # line}

(* Every entry of another line is afterwards at its index or at a          *)
(* neighbouring one, with the same line, routine, context and priority     *)
(* (at[i] is where the entry of index i is afterwards); no entry of        *)
(* another line appears; and two such entries keep their order (entries    *)
(* three or more indices apart cannot pass each other by moves of one      *)
(* index, so those one and two indices apart are compared).                *)
OthersPreserved(tab, tabAfter, line) ==
    \A before \in {OthersIdx(tab, line)} : \A after \in {OthersIdx(tabAfter, line)} :
        /\ \A i \in before : \E j \in {i - 1, i, i + 1} \cap after : tabAfter[j] = tab[i]
        /\ \A j \in after : \E i \in {j - 1, j, j + 1} \cap before : tab[i] = tabAfter[j]
        /\ \A at \in {[i \in before |->
                          CHOOSE j \in {i - 1, i, i + 1} \cap after : tabAfter[j] = tab[i]]} :
              \A i1 \in before : \A i2 \in {i1 + 1, i1 + 2} \cap before : at[i1] < at[i2]

(* C30: a register call that succeeds (returns an index) and an unregister *)
(* call for a line its table holds leave the entry of every other line     *)
(* with the same routine, context and stored priority, at most one index   *)
(* away from where it was, and leave the other lines' entries in the same  *)
(* order; the table of the other mode is unchanged.                        *)
C30_OtherEntriesPreserved ==
    [][/\ (\/ call'.op = "pic_registerNonVectoredIrq" /\ ret' >= 0
           \/ /\ call'.op = "pic_unregisterNonVectoredIrq"
              /\ \E i \in Idx : isrNV[i].irq = call'.irq) =>
             /\ OthersPreserved(isrNV, isrNV', call'.irq)
             /\ irqVect' = irqVect
       /\ (\/ call'.op = "pic_registerVectorIrq" /\ ret' >= 0
           \/ /\ call'.op = "pic_unregisterVectorIrq"
              /\ \E i \in Idx : irqVect[i].irq = call'.irq) =>
             /\ OthersPreserved(irqVect, irqVect', call'.irq)
             /\ isrNV' = isrNV]_vars

(* A line was registered between the entries of other lines, in a table of *)
(* more than 16 lines: the entries after it are one index further down     *)
(* than the entries before it.                                             *)
C30_Witness ==
    /\ call.op = "pic_registerNonVectoredIrq"
    /\ ret \in 1..30
    /\ isrNV[ret].irq = call.irq
    /\ isrNV[ret + 1].irq >= 0
    /\ Cardinality(OccupiedIdx(isrNV)) > 16

(* A line was unregistered from above the entries of other lines, which    *)
(* are one index further up.                                               *)
C30_WitnessUnregister ==
    /\ call.op = "pic_unregisterVectorIrq"
    /\ call.pos \in 0..14
    /\ call.irq \notin Occupied(irqVect)
    /\ irqVect[call.pos].irq >= 0
    /\ irqVect[call.pos + 1].irq >= 0

(***************************************************************************)
(* A line registered again with the priority it has.                       *)
(***************************************************************************)
(* the table of the registry of the call as it was when the call was made *)
PreTable == IF loc.reg = "nv" THEN loc.t0 ELSE loc.t0.t

(* C31: when pic_registerNonVectoredIrq returns from a call for a line that *)
(* its table held with a stored priority equal to the (masked) priority of  *)
(* the call, and the table had an empty entry, the call returns the index   *)
(* of the line's entry, every other entry of that priority is at a lower    *)
(* index, and if such an entry was after the line's entry before the call   *)
(* the line's entry has moved to a higher index.  (The vectored function    *)
(* has the same loops; there the property needs a table without the stale   *)
(* entries of C9.)                                                          *)
C31_ReRegisterRanksLast ==
    [][(pc \in {"reg_search", "reg_fill"} /\ pc' = "idle") =>
          \A t0 \in {PreTable} : \A tab \in {IF loc.reg = "nv" THEN isrNV' ELSE irqVect'} :
              \A p \in Idx :
                  (/\ t0[p].irq = loc.irq
                   /\ t0[p].priority = loc.prior
                   /\ \E e \in Idx : t0[e].irq < 0) =>
                      /\ ret' \in Idx
                      /\ tab[ret'].irq = loc.irq
                      /\ tab[ret'].priority = loc.prior
                      /\ \A j \in Idx \ {ret'} : tab[j].priority = loc.prior => j < ret'
                      /\ (\E q \in Idx : q > p /\ t0[q].priority = loc.prior) => ret' > p]_vars

(* A register function is moving the entry of its line, which is           *)
(* registered with the priority of the call, below a later entry of the    *)
(* same priority: it is in the loop that shifts the entries between up.    *)
C31_Witness ==
    /\ pc = "reg_up"
    /\ loc.i = loc.irqPos
    /\ loc.prPos > loc.irqPos
    /\ PreTable[loc.irqPos].irq = loc.irq
    /\ PreTable[loc.irqPos].priority = loc.prior
    /\ PreTable[loc.prPos].priority = loc.prior
    /\ PreTable[loc.prPos].irq # loc.irq

(***************************************************************************)
(* The default vector routine and the asserted line.                       *)
(***************************************************************************)
(* the default vector routine has returned to _pic_IrqHandler *)
DefaultReturned == pc = "vect_ack" /\ loc.addr = defaultVectorIsr

(* C32: a call of the default vector routine runs the routine of the first *)
(* entry of 16..31 whose line is enabled in VICINTENABLE, whatever line is *)
(* asserted: when two or more entries of 16..31 hold enabled lines and the *)
(* only asserted line is that of an entry b after the first of them, the   *)
(* one routine run is that of the first enabled entry, which is not the    *)
(* routine of entry b.                                                     *)
C32_DefaultIgnoresAssertedLine ==
    DefaultReturned =>
        \A b \in DefaultHits :
            (/\ loc.h[1] = {irqVect[b].irq}
             /\ loc.h[2] = {irqVect[b].irq}
             /\ \E a \in DefaultHits : a < b) =>
                \E a \in DefaultHits :
                    /\ \A d \in DefaultHits : a <= d
                    /\ LogCalls = <<CallIsr(defaultVectorIsr, NULL), CallIsr(irqVect[a].isr, NULL)>>
                    /\ irqVect[a].isr # irqVect[b].isr
                    /\ \A n \in DOMAIN log : ~(log[n][1] = "call" /\ log[n][2] = irqVect[b].isr)

(* The default vector routine returned from a call made while only the     *)
(* line of the third enabled entry of 16..31 was asserted.                 *)
C32_Witness ==
    /\ DefaultReturned
    /\ Cardinality(DefaultHits) = 3
    /\ \E b \in DefaultHits :
          /\ loc.h[1] = {irqVect[b].irq}
          /\ Cardinality({a \in DefaultHits : a < b}) = 2
          /\ Len(LogCalls) = 2

(***************************************************************************)
(* Termination of the relocation.                                          *)
(***************************************************************************)
(* copy_vectors passed its two tests and went into one of its loops *)
LoopTaken ==
    /\ CopyEntered
    /\ dst_start # src_begin
    /\ ~(BlockLenValue(diffEval) > WordsToTop(dst_start, diffEval))

LowToHigh == dst_start < src_begin \/ dst_start >= src_end

(* C33: copy_vectors returns for every placement of the source and the     *)
(* destination; when it returns from the low-to-high loop it has copied    *)
(* block_len words; the high-to-low loop is taken only with the            *)
(* destination strictly inside the source (so above address 0), its        *)
(* destination pointer is never decremented below address 0, and when      *)
(* copy_vectors returns from it it has copied block_len words.             *)
C33_CopyTerminates ==
    /\ [](copy_pc = "backward" =>
             /\ src_begin < dst_start /\ dst_start < src_end
             /\ dst_start > 0
             /\ vectors_dst >= dst_start => vectors_dst > 0)
    /\ []((copy_pc = "done" /\ LoopTaken) => copied = block_len)
    /\ <>(copy_pc = "done")

(* copy_vectors returned from the high-to-low loop after copying a block   *)
(* of half the address space or more, in a build that wraps the pointer    *)
(* differences, to a destination strictly inside the block.                *)
C33_Witness ==
    /\ copy_pc = "done"
    /\ LoopTaken
    /\ ~LowToHigh
    /\ diffEval = "shift"
    /\ 4 * block_len >= 2 * AddrWords
    /\ copied = block_len
    /\ vectors_dst = dst_start - 1

(* copy_vectors returned from the low-to-high loop after copying a block   *)
(* to a destination after its end.                                         *)
C33_WitnessForward ==
    /\ copy_pc = "done"
    /\ LoopTaken
    /\ LowToHigh
    /\ dst_start >= src_end
    /\ block_len > 1
    /\ copied = block_len

=============================================================================
